---- MODULE Spec2Model ----
(***************************************************************************)
(* Domain model of the salon CRM backend: the Client aggregate (credit     *)
(* terms and contacts), the MenuItem entity and the Product entity, each   *)
(* translated method by method from the TypeScript sources.                *)
(*                                                                         *)
(* Every method is a pure operator returning [err, value]: err is the name *)
(* of the error class the method throws ("none" when it returns), value is *)
(* the object's state after the call (the state before it when it throws   *)
(* before assigning anything).  An action applies one method to the entity *)
(* held in the variables and records the call in op.                       *)
(***************************************************************************)
EXTENDS Integers, Sequences, FiniteSets, TLC

VARIABLES
    client,     \* the Client entity: exists, creditTerms, primaryContact, secondaryContacts
    menuItem,   \* the MenuItem entity
    product,    \* the Product entity
    customer,   \* the Customer entity
    db,         \* the stored collections: one field per repository
    calls,      \* the use case executions in flight: each one's position and locals
    op          \* the last call: [name, arg, err] and, for use cases, its result

vars == <<client, menuItem, product, customer, db, calls, op>>

(***************************************************************************)
(* Bounds of the model                                                     *)
(***************************************************************************)
MaxLimit == 3           \* credit limits and balances range over 0..MaxLimit
MaxAmount == 3          \* charge and payment amounts range over -1..MaxAmount
NumEmails == 3          \* distinct (normalised) e-mail values
MaxInitSecondary == 2   \* secondary contacts handed to the Client constructor
NumServices == 2        \* distinct included-service names
MaxInitServices == 2    \* included services handed to the MenuItem constructor
MaxStock == 3           \* stock levels are kept within 0..MaxStock
MaxQuantity == 2        \* restock / reduce quantities range over -1..MaxQuantity

(***************************************************************************)
(* Shared vocabulary                                                       *)
(***************************************************************************)
\* error classes of shared/errors/DomainError
NoError == "none"
ValidationError == "ValidationError"
BusinessRuleViolationError == "BusinessRuleViolationError"
NotFoundError == "NotFoundError"
ConflictError == "ConflictError"

\* an optional field that is absent (TypeScript undefined)
Undefined == -1000

\* sequences over S of length at most n
RECURSIVE SeqsUpTo(_, _)
SeqsUpTo(S, n) ==
    IF n = 0 THEN {<<>>}
    ELSE LET shorter == SeqsUpTo(S, n - 1)
         IN  shorter \cup {Append(s, x) : s \in {t \in shorter : Len(t) = n - 1}, x \in S}

\* Array.prototype.splice(index, 1)
RemoveAt(s, i) == SubSeq(s, 1, i - 1) \o SubSeq(s, i + 1, Len(s))

\* Array.prototype.indexOf, 1-based; 0 when x is not in s
IndexOf(s, x) ==
    IF \E i \in 1..Len(s) : s[i] = x
    THEN CHOOSE i \in 1..Len(s) : s[i] = x /\ \A j \in 1..(i - 1) : s[j] # x
    ELSE 0

(***************************************************************************)
(* CreditTerms value object                                                *)
(***************************************************************************)
PaymentTermsType == {"NET_15", "NET_30", "NET_45", "NET_60", "IMMEDIATE", "PREPAID", "CUSTOM"}

\* payment terms the model draws inputs from: one NET_* term stands for the
\* four, which no method distinguishes except getPaymentDueDays
ModelledTerms == {"NET_30", "IMMEDIATE", "PREPAID", "CUSTOM"}

\* customTermsDays: Undefined or a number of days
CreditTermsPropsSpace ==
    [paymentTerms    : ModelledTerms,
     creditLimit     : -1..MaxLimit,
     currentBalance  : -1..MaxLimit,
     discountPercent : {-1, 0, 100, 101},
     customTermsDays : {Undefined, 30},
     isActive        : BOOLEAN]

\* CreditTerms.validate with the check of balance against limit left out
CreditTermsValidate_NoLimitCheck(value) ==
    IF value.paymentTerms \notin PaymentTermsType THEN ValidationError
    ELSE IF value.paymentTerms = "CUSTOM"
            /\ (value.customTermsDays = Undefined \/ value.customTermsDays <= 0)
        THEN ValidationError
    ELSE IF value.creditLimit < 0 THEN ValidationError
    ELSE IF value.currentBalance < 0 THEN ValidationError
    ELSE IF value.discountPercent < 0 \/ value.discountPercent > 100 THEN ValidationError
    ELSE NoError

\* CreditTerms.validate: the error thrown by the constructor, NoError if none
CreditTermsValidate(value) ==
    IF value.paymentTerms \notin PaymentTermsType THEN ValidationError
    ELSE IF value.paymentTerms = "CUSTOM"
            /\ (value.customTermsDays = Undefined \/ value.customTermsDays <= 0)
        THEN ValidationError
    ELSE IF value.creditLimit < 0 THEN ValidationError
    ELSE IF value.currentBalance < 0 THEN ValidationError
    ELSE IF value.currentBalance > value.creditLimit THEN ValidationError
    ELSE IF value.discountPercent < 0 \/ value.discountPercent > 100 THEN ValidationError
    ELSE NoError

\* CreditTerms.create(props) on behalf of the object `old`: the new value
\* object, or the error of its constructor and the old one kept
CreditTermsCreate(old, props) ==
    LET e == CreditTermsValidate(props)
    IN  IF e = NoError THEN [err |-> NoError, value |-> props]
        ELSE [err |-> e, value |-> old]

CreditTermsImmediate ==
    [paymentTerms |-> "IMMEDIATE", creditLimit |-> 0, currentBalance |-> 0,
     discountPercent |-> 0, customTermsDays |-> Undefined, isActive |-> TRUE]

CreditTermsPrepaid ==
    [paymentTerms |-> "PREPAID", creditLimit |-> 0, currentBalance |-> 0,
     discountPercent |-> 0, customTermsDays |-> Undefined, isActive |-> TRUE]

CreditTermsNet30(creditLimit, discountPercent) ==
    [paymentTerms |-> "NET_30", creditLimit |-> creditLimit, currentBalance |-> 0,
     discountPercent |-> discountPercent, customTermsDays |-> Undefined, isActive |-> TRUE]

\* every CreditTerms instance a caller can construct
CreditTermsInstances ==
    {p \in CreditTermsPropsSpace : CreditTermsValidate(p) = NoError}
    \cup {CreditTermsImmediate, CreditTermsPrepaid}
    \cup {t \in {CreditTermsNet30(l, d) : l \in -1..MaxLimit, d \in {-1, 0, 100, 101}} :
             CreditTermsValidate(t) = NoError}

\* the errors CreditTerms.create throws on props it rejects
CreditTermsCreateErrors ==
    {CreditTermsValidate(p) : p \in CreditTermsPropsSpace} \ {NoError}

\* canProcessCharge comparing with < instead of <=
CanProcessCharge_Strict(ct, amount) ==
    IF ~ct.isActive THEN FALSE
    ELSE IF ct.paymentTerms = "PREPAID" \/ ct.paymentTerms = "IMMEDIATE" THEN TRUE
    ELSE (ct.currentBalance + amount) < ct.creditLimit

CanProcessCharge(ct, amount) ==
    IF ~ct.isActive THEN FALSE
    ELSE IF ct.paymentTerms = "PREPAID" \/ ct.paymentTerms = "IMMEDIATE" THEN TRUE
    ELSE (ct.currentBalance + amount) <= ct.creditLimit

CreditTermsAddCharge(ct, amount) ==
    IF amount <= 0 THEN [err |-> ValidationError, value |-> ct]
    ELSE CreditTermsCreate(ct, [ct EXCEPT !.currentBalance = ct.currentBalance + amount])

\* processPayment accepting a zero amount
CreditTermsProcessPayment_AllowZero(ct, amount) ==
    IF amount < 0 THEN [err |-> ValidationError, value |-> ct]
    ELSE IF amount > ct.currentBalance THEN [err |-> ValidationError, value |-> ct]
    ELSE CreditTermsCreate(ct, [ct EXCEPT !.currentBalance = ct.currentBalance - amount])

CreditTermsProcessPayment(ct, amount) ==
    IF amount <= 0 THEN [err |-> ValidationError, value |-> ct]
    ELSE IF amount > ct.currentBalance THEN [err |-> ValidationError, value |-> ct]
    ELSE CreditTermsCreate(ct, [ct EXCEPT !.currentBalance = ct.currentBalance - amount])

(***************************************************************************)
(* ContactPerson value object: the fields the Client reads.  An e-mail is  *)
(* the normalised string Email.toString() returns, numbered 1..NumEmails.  *)
(***************************************************************************)
Emails == 1..NumEmails

ContactPerson == [email : Emails, isPrimary : BOOLEAN]

(***************************************************************************)
(* Client entity                                                           *)
(***************************************************************************)
MaxSecondaryContacts == 5

DefaultPrimaryContact == [email |-> 1, isPrimary |-> TRUE]

NoClient ==
    [exists |-> FALSE, isActive |-> TRUE, creditTerms |-> CreditTermsImmediate,
     primaryContact |-> DefaultPrimaryContact, secondaryContacts |-> <<>>]

SecondaryEmails(secondaryContacts) ==
    {secondaryContacts[i].email : i \in 1..Len(secondaryContacts)}

\* secondaryContacts.findIndex(c => c.email.toString() === contactEmail),
\* 1-based; 0 when no contact matches
FindIndexByEmail(secondaryContacts, contactEmail) ==
    IndexOf([i \in 1..Len(secondaryContacts) |-> secondaryContacts[i].email], contactEmail)

\* Client.validatePrimaryContact
ClientValidatePrimaryContact(primaryContact, secondaryContacts) ==
    IF ~primaryContact.isPrimary THEN ValidationError
    ELSE IF primaryContact.email \in SecondaryEmails(secondaryContacts)
        THEN BusinessRuleViolationError
    ELSE NoError

\* new Client(props), for props whose company name, billing address and
\* contract dates are valid and that carry no isActive (isActive ?? true)
ClientConstruct(primaryContact, secondaryContacts, creditTerms) ==
    LET e == ClientValidatePrimaryContact(primaryContact, secondaryContacts)
    IN  IF e # NoError THEN [err |-> e, value |-> NoClient]
        ELSE [err |-> NoError,
              value |-> [exists |-> TRUE, isActive |-> TRUE,
                         creditTerms |-> creditTerms,
                         primaryContact |-> primaryContact,
                         secondaryContacts |-> secondaryContacts]]

ClientUpdatePrimaryContact(c, newContact) ==
    LET e == ClientValidatePrimaryContact(newContact, c.secondaryContacts)
    IN  IF e # NoError THEN [err |-> e, value |-> c]
        ELSE [err |-> NoError, value |-> [c EXCEPT !.primaryContact = newContact]]

ClientAddSecondaryContact(c, contact) ==
    IF Len(c.secondaryContacts) >= MaxSecondaryContacts
        THEN [err |-> BusinessRuleViolationError, value |-> c]
    ELSE IF contact.isPrimary
        THEN [err |-> BusinessRuleViolationError, value |-> c]
    ELSE IF contact.email \in ({c.primaryContact.email} \cup SecondaryEmails(c.secondaryContacts))
        THEN [err |-> BusinessRuleViolationError, value |-> c]
    ELSE [err |-> NoError,
          value |-> [c EXCEPT !.secondaryContacts = Append(@, contact)]]

ClientRemoveSecondaryContact(c, contactEmail) ==
    LET index == FindIndexByEmail(c.secondaryContacts, contactEmail)
    IN  IF index = 0 THEN [err |-> ValidationError, value |-> c]
        ELSE [err |-> NoError,
              value |-> [c EXCEPT !.secondaryContacts = RemoveAt(@, index)]]

ClientUpdateSecondaryContact(c, contactEmail, updatedContact) ==
    LET index == FindIndexByEmail(c.secondaryContacts, contactEmail)
    IN  IF index = 0 THEN [err |-> ValidationError, value |-> c]
        ELSE IF updatedContact.isPrimary
            THEN [err |-> BusinessRuleViolationError, value |-> c]
        ELSE [err |-> NoError,
              value |-> [c EXCEPT !.secondaryContacts[index] = updatedContact]]

\* Client.updateCreditTerms(newTerms)
ClientUpdateCreditTerms(c, newTerms) ==
    [err |-> NoError, value |-> [c EXCEPT !.creditTerms = newTerms]]

\* addCharge asking the client's own canProcessCharge, which wants isActive
ClientAddCharge_ActiveOnly(c, amount) ==
    IF ~(c.isActive /\ CanProcessCharge(c.creditTerms, amount))
        THEN [err |-> BusinessRuleViolationError, value |-> c]
    ELSE LET r == CreditTermsAddCharge(c.creditTerms, amount)
         IN  [err |-> r.err, value |-> [c EXCEPT !.creditTerms = r.value]]

ClientAddCharge(c, amount) ==
    IF ~CanProcessCharge(c.creditTerms, amount)
        THEN [err |-> BusinessRuleViolationError, value |-> c]
    ELSE LET r == CreditTermsAddCharge(c.creditTerms, amount)
         IN  [err |-> r.err, value |-> [c EXCEPT !.creditTerms = r.value]]

ClientProcessPayment(c, amount) ==
    LET r == CreditTermsProcessPayment(c.creditTerms, amount)
    IN  [err |-> r.err, value |-> [c EXCEPT !.creditTerms = r.value]]

(***************************************************************************)
(* Client actions                                                          *)
(***************************************************************************)
Amounts == -1..MaxAmount

\* the caller builds a CreditTerms instance and constructs a Client with it
NewClientWithTerms ==
    /\ op.name = "init"
    /\ \E t \in CreditTermsInstances :
         LET r == ClientConstruct(DefaultPrimaryContact, <<>>, t)
         IN  /\ client' = r.value
             /\ op' = [name |-> "newClient", arg |-> 0, err |-> r.err]
    /\ UNCHANGED <<menuItem, product, customer, db, calls>>

\* the caller constructs a Client with any contacts
NewClientWithContacts ==
    /\ op.name = "init"
    /\ \E p \in ContactPerson, s \in SeqsUpTo(ContactPerson, MaxInitSecondary) :
         LET r == ClientConstruct(p, s, CreditTermsImmediate)
         IN  /\ client' = r.value
             /\ op' = [name |-> "newClient", arg |-> 0, err |-> r.err]
    /\ UNCHANGED <<menuItem, product, customer, db, calls>>

AddCharge ==
    /\ client.exists
    /\ \E amount \in Amounts :
         LET r == ClientAddCharge(client, amount)
         IN  /\ client' = r.value
             /\ op' = [name |-> "addCharge", arg |-> amount, err |-> r.err]
    /\ UNCHANGED <<menuItem, product, customer, db, calls>>

ProcessPayment ==
    /\ client.exists
    /\ \E amount \in Amounts :
         LET r == ClientProcessPayment(client, amount)
         IN  /\ client' = r.value
             /\ op' = [name |-> "processPayment", arg |-> amount, err |-> r.err]
    /\ UNCHANGED <<menuItem, product, customer, db, calls>>

\* client.updateCreditTerms(newTerms): newTerms is an instance the caller has
\* built; when building it throws, updateCreditTerms is never entered
UpdateCreditTerms ==
    /\ client.exists
    /\ \/ \E newTerms \in CreditTermsInstances :
            LET r == ClientUpdateCreditTerms(client, newTerms)
            IN  /\ client' = r.value
                /\ op' = [name |-> "updateCreditTerms", arg |-> 0, err |-> r.err]
       \/ \E e \in CreditTermsCreateErrors :
            /\ client' = client
            /\ op' = [name |-> "updateCreditTerms", arg |-> 0, err |-> e]
    /\ UNCHANGED <<menuItem, product, customer, db, calls>>

UpdatePrimaryContact ==
    /\ client.exists
    /\ \E c \in ContactPerson :
         LET r == ClientUpdatePrimaryContact(client, c)
         IN  /\ client' = r.value
             /\ op' = [name |-> "updatePrimaryContact", arg |-> 0, err |-> r.err]
    /\ UNCHANGED <<menuItem, product, customer, db, calls>>

AddSecondaryContact ==
    /\ client.exists
    /\ \E c \in ContactPerson :
         LET r == ClientAddSecondaryContact(client, c)
         IN  /\ client' = r.value
             /\ op' = [name |-> "addSecondaryContact", arg |-> 0, err |-> r.err]
    /\ UNCHANGED <<menuItem, product, customer, db, calls>>

RemoveSecondaryContact ==
    /\ client.exists
    /\ \E e \in Emails :
         LET r == ClientRemoveSecondaryContact(client, e)
         IN  /\ client' = r.value
             /\ op' = [name |-> "removeSecondaryContact", arg |-> 0, err |-> r.err]
    /\ UNCHANGED <<menuItem, product, customer, db, calls>>

UpdateSecondaryContact ==
    /\ client.exists
    /\ \E e \in Emails, c \in ContactPerson :
         LET r == ClientUpdateSecondaryContact(client, e, c)
         IN  /\ client' = r.value
             /\ op' = [name |-> "updateSecondaryContact", arg |-> 0, err |-> r.err]
    /\ UNCHANGED <<menuItem, product, customer, db, calls>>

(***************************************************************************)
(* MenuCategory value object                                               *)
(***************************************************************************)
MenuCategories ==
    {"HAIR_SERVICES", "NAIL_SERVICES", "FACIAL_SERVICES", "BODY_TREATMENTS",
     "MASSAGE_THERAPY", "BRIDAL_PACKAGES", "SPECIAL_OCCASIONS", "WELLNESS_PACKAGES",
     "SEASONAL_OFFERS", "MEMBERSHIP_PLANS", "ADD_ON_SERVICES", "GIFT_PACKAGES"}

MenuCategoryIsPackage(category) ==
    category \in {"BRIDAL_PACKAGES", "WELLNESS_PACKAGES", "GIFT_PACKAGES"}

MenuCategoryRequiresAdvanceBooking(category) ==
    category \in {"BRIDAL_PACKAGES", "SPECIAL_OCCASIONS", "WELLNESS_PACKAGES"}

(***************************************************************************)
(* MenuItem entity.  name and description are held by their trimmed        *)
(* length, dates by a day number, included services by a number.           *)
(***************************************************************************)
Services == 1..NumServices
Dates == {Undefined, 1, 2}

MenuItemPropsSpace ==
    [name                   : {2, 3},
     description            : {9, 10},
     displayOrder           : {-1, 0},
     category               : MenuCategories,
     isPackage              : BOOLEAN,
     includedServices       : SeqsUpTo(Services, MaxInitServices),
     advanceBookingRequired : BOOLEAN,
     advanceBookingDays     : {Undefined, -1, 0, 1},
     seasonalItem           : BOOLEAN,
     validFrom              : Dates,
     validTo                : Dates]

NoMenuItem ==
    [exists |-> FALSE, isActive |-> TRUE, name |-> 3, description |-> 10,
     displayOrder |-> 0, tags |-> <<>>,
     category |-> "HAIR_SERVICES", isPackage |-> FALSE, includedServices |-> <<>>,
     advanceBookingRequired |-> FALSE, advanceBookingDays |-> Undefined,
     seasonalItem |-> FALSE, validFrom |-> Undefined, validTo |-> Undefined]

\* props.isActive ?? true
IsActiveOrTrue(props) ==
    IF "isActive" \in DOMAIN props THEN props.isActive ELSE TRUE

\* props.tags || []
TagsOrEmpty(props) == IF "tags" \in DOMAIN props THEN props.tags ELSE <<>>

\* JavaScript truthiness of an optional number
Truthy(x) == x # Undefined /\ x # 0

MenuItemValidateName(name) ==
    IF name = 0 THEN ValidationError
    ELSE IF name < 3 THEN ValidationError
    ELSE IF name > 100 THEN ValidationError
    ELSE NoError

MenuItemValidateDescription(description) ==
    IF description = 0 THEN ValidationError
    ELSE IF description < 10 THEN ValidationError
    ELSE IF description > 1000 THEN ValidationError
    ELSE NoError

MenuItemValidateDisplayOrder(order) ==
    IF order < 0 THEN ValidationError ELSE NoError

MenuItemValidateBusinessRules(props) ==
    IF props.isPackage /\ Len(props.includedServices) = 0
        THEN BusinessRuleViolationError
    ELSE IF props.advanceBookingRequired /\ Truthy(props.advanceBookingDays)
            /\ props.advanceBookingDays < 1
        THEN ValidationError
    ELSE IF props.seasonalItem /\ props.validFrom # Undefined /\ props.validTo # Undefined
            /\ props.validFrom >= props.validTo
        THEN ValidationError
    ELSE IF props.isPackage # MenuCategoryIsPackage(props.category)
        THEN BusinessRuleViolationError
    ELSE NoError

\* new MenuItem(props)
MenuItemConstruct(props) ==
    LET e1 == MenuItemValidateName(props.name)
        e2 == MenuItemValidateDescription(props.description)
        e3 == MenuItemValidateDisplayOrder(props.displayOrder)
        e4 == MenuItemValidateBusinessRules(props)
        e  == IF e1 # NoError THEN e1
              ELSE IF e2 # NoError THEN e2
              ELSE IF e3 # NoError THEN e3
              ELSE e4
    IN  IF e # NoError THEN [err |-> e, value |-> NoMenuItem]
        ELSE [err |-> NoError,
              value |-> [exists |-> TRUE, isActive |-> IsActiveOrTrue(props),
                         name |-> props.name,
                         description |-> props.description,
                         displayOrder |-> props.displayOrder,
                         tags |-> TagsOrEmpty(props),
                         category |-> props.category, isPackage |-> props.isPackage,
                         includedServices |-> props.includedServices,
                         advanceBookingRequired |-> props.advanceBookingRequired,
                         advanceBookingDays |-> props.advanceBookingDays,
                         seasonalItem |-> props.seasonalItem,
                         validFrom |-> props.validFrom, validTo |-> props.validTo]]

\* updateCategory that leaves the package flag alone
MenuItemUpdateCategory_KeepFlag(m, newCategory) ==
    [err |-> NoError,
     value |-> [m EXCEPT !.category = newCategory,
                         !.advanceBookingRequired =
                             MenuCategoryRequiresAdvanceBooking(newCategory)]]

MenuItemUpdateCategory(m, newCategory) ==
    [err |-> NoError,
     value |-> [m EXCEPT !.category = newCategory,
                         !.isPackage = MenuCategoryIsPackage(newCategory),
                         !.advanceBookingRequired =
                             MenuCategoryRequiresAdvanceBooking(newCategory)]]

MenuItemAddIncludedService(m, service) ==
    IF \E i \in 1..Len(m.includedServices) : m.includedServices[i] = service
        THEN [err |-> ValidationError, value |-> m]
    ELSE [err |-> NoError, value |-> [m EXCEPT !.includedServices = Append(@, service)]]

MenuItemRemoveIncludedService(m, service) ==
    LET index == IndexOf(m.includedServices, service)
    IN  IF index = 0 THEN [err |-> ValidationError, value |-> m]
        ELSE [err |-> NoError,
              value |-> [m EXCEPT !.includedServices = RemoveAt(@, index)]]

\* the flag is assigned before the days are checked
MenuItemUpdateAdvanceBookingRequirement(m, required, days) ==
    LET m1 == [m EXCEPT !.advanceBookingRequired = required]
    IN  IF required /\ Truthy(days)
        THEN IF days < 1 \/ days > 365
             THEN [err |-> ValidationError, value |-> m1]
             ELSE [err |-> NoError, value |-> [m1 EXCEPT !.advanceBookingDays = days]]
        ELSE [err |-> NoError, value |-> [m1 EXCEPT !.advanceBookingDays = Undefined]]

MenuItemUpdateSeasonalValidity(m, validFrom, validTo) ==
    IF validFrom # Undefined /\ validTo # Undefined /\ validFrom >= validTo
        THEN [err |-> ValidationError, value |-> m]
    ELSE [err |-> NoError,
          value |-> [m EXCEPT !.validFrom = validFrom, !.validTo = validTo,
                              !.seasonalItem = (validFrom # Undefined \/ validTo # Undefined)]]

(***************************************************************************)
(* Tags.  A tag string is its letters (core), whether some letter is upper *)
(* case and whether white space surrounds it; the empty core with padding  *)
(* is a string of white space.                                             *)
(***************************************************************************)
MaxInitTags == 2

TagStrings ==
    [core : {"vip", "new"}, upper : BOOLEAN, padded : BOOLEAN]
    \cup [core : {""}, upper : {FALSE}, padded : BOOLEAN]

\* String.prototype.trim
StringTrim(t) == [t EXCEPT !.padded = FALSE]

\* String.prototype.toLowerCase
StringToLowerCase(t) == [t EXCEPT !.upper = FALSE]

MenuItemAddTag(m, tag) ==
    LET normalizedTag == StringToLowerCase(StringTrim(tag))
    IN  IF normalizedTag.core = "" THEN [err |-> ValidationError, value |-> m]
        ELSE IF IndexOf(m.tags, normalizedTag) = 0
            THEN [err |-> NoError, value |-> [m EXCEPT !.tags = Append(@, normalizedTag)]]
        ELSE [err |-> NoError, value |-> m]

MenuItemRemoveTag(m, tag) ==
    LET normalizedTag == StringToLowerCase(StringTrim(tag))
        index == IndexOf(m.tags, normalizedTag)
    IN  IF index # 0
        THEN [err |-> NoError, value |-> [m EXCEPT !.tags = RemoveAt(@, index)]]
        ELSE [err |-> NoError, value |-> m]

(***************************************************************************)
(* MenuItem actions                                                        *)
(***************************************************************************)
\* MenuItem.create({..., tags}) as CreateMenuItem.execute calls it, with
\* request.tags passed on as it is
NewTaggedMenuItem ==
    /\ op.name = "init"
    /\ \E tags \in SeqsUpTo(TagStrings, MaxInitTags) :
         LET r == MenuItemConstruct(
                      [name |-> 3, description |-> 10, displayOrder |-> 1,
                       category |-> "HAIR_SERVICES", isPackage |-> FALSE,
                       includedServices |-> <<>>, advanceBookingRequired |-> FALSE,
                       advanceBookingDays |-> Undefined, seasonalItem |-> FALSE,
                       validFrom |-> Undefined, validTo |-> Undefined,
                       tags |-> tags, isActive |-> TRUE])
         IN  /\ menuItem' = r.value
             /\ op' = [name |-> "newTaggedMenuItem", arg |-> tags, err |-> r.err]
    /\ UNCHANGED <<client, product, customer, db, calls>>

AddTag ==
    /\ menuItem.exists
    /\ \E tag \in TagStrings :
         LET r == MenuItemAddTag(menuItem, tag)
         IN  /\ menuItem' = r.value
             /\ op' = [name |-> "addTag", arg |-> tag, err |-> r.err]
    /\ UNCHANGED <<client, product, customer, db, calls>>

RemoveTag ==
    /\ menuItem.exists
    /\ \E tag \in TagStrings :
         LET r == MenuItemRemoveTag(menuItem, tag)
         IN  /\ menuItem' = r.value
             /\ op' = [name |-> "removeTag", arg |-> tag, err |-> r.err]
    /\ UNCHANGED <<client, product, customer, db, calls>>

NewMenuItem ==
    /\ op.name = "init"
    /\ \E props \in MenuItemPropsSpace :
         LET r == MenuItemConstruct(props)
         IN  /\ menuItem' = r.value
             /\ op' = [name |-> "newMenuItem", arg |-> props, err |-> r.err]
    /\ UNCHANGED <<client, product, customer, db, calls>>

UpdateCategory ==
    /\ menuItem.exists
    /\ \E c \in MenuCategories :
         LET r == MenuItemUpdateCategory(menuItem, c)
         IN  /\ menuItem' = r.value
             /\ op' = [name |-> "updateCategory", arg |-> c, err |-> r.err]
    /\ UNCHANGED <<client, product, customer, db, calls>>

AddIncludedService ==
    /\ menuItem.exists
    /\ \E s \in Services :
         LET r == MenuItemAddIncludedService(menuItem, s)
         IN  /\ menuItem' = r.value
             /\ op' = [name |-> "addIncludedService", arg |-> s, err |-> r.err]
    /\ UNCHANGED <<client, product, customer, db, calls>>

RemoveIncludedService ==
    /\ menuItem.exists
    /\ \E s \in Services :
         LET r == MenuItemRemoveIncludedService(menuItem, s)
         IN  /\ menuItem' = r.value
             /\ op' = [name |-> "removeIncludedService", arg |-> s, err |-> r.err]
    /\ UNCHANGED <<client, product, customer, db, calls>>

UpdateAdvanceBookingRequirement ==
    /\ menuItem.exists
    /\ \E required \in BOOLEAN, days \in {Undefined, -1, 0, 1, 366} :
         LET r == MenuItemUpdateAdvanceBookingRequirement(menuItem, required, days)
         IN  /\ menuItem' = r.value
             /\ op' = [name |-> "updateAdvanceBookingRequirement", arg |-> days,
                       err |-> r.err]
    /\ UNCHANGED <<client, product, customer, db, calls>>

UpdateSeasonalValidity ==
    /\ menuItem.exists
    /\ \E f \in Dates, t \in Dates :
         LET r == MenuItemUpdateSeasonalValidity(menuItem, f, t)
         IN  /\ menuItem' = r.value
             /\ op' = [name |-> "updateSeasonalValidity", arg |-> 0, err |-> r.err]
    /\ UNCHANGED <<client, product, customer, db, calls>>

(***************************************************************************)
(* ProductType value object                                                *)
(***************************************************************************)
VALID_PRODUCT_TYPES == {"SERVICE", "PHYSICAL_PRODUCT", "PACKAGE"}

RequiresDuration(type) == type = "SERVICE" \/ type = "PACKAGE"

RequiresInventory(type) == type = "PHYSICAL_PRODUCT"

(***************************************************************************)
(* Product entity.  name and description are held by their trimmed length. *)
(***************************************************************************)
Durations == {3, 5, 45, 485}
Quantities == -1..MaxQuantity

ProductPropsSpace ==
    [name              : {1, 2},
     description       : {9, 10},
     type              : VALID_PRODUCT_TYPES,
     isActive          : BOOLEAN,
     durationMinutes   : {Undefined} \cup Durations,
     stockLevel        : {Undefined} \cup (-1..MaxStock),
     lowStockThreshold : {Undefined, -1, 0, 1}]

NoProduct ==
    [exists |-> FALSE, name |-> 2, description |-> 10, type |-> "SERVICE",
     isActive |-> TRUE, durationMinutes |-> 5, stockLevel |-> Undefined, lowStockThreshold |-> Undefined]

\* x || 0
OrZero(x) == IF x = Undefined THEN 0 ELSE x

ProductValidateName(name) ==
    IF name = 0 THEN ValidationError
    ELSE IF name < 2 THEN ValidationError
    ELSE IF name > 100 THEN ValidationError
    ELSE NoError

ProductValidateDescription(description) ==
    IF description = 0 THEN ValidationError
    ELSE IF description < 10 THEN ValidationError
    ELSE IF description > 500 THEN ValidationError
    ELSE NoError

ProductValidateDuration(durationMinutes) ==
    IF durationMinutes < 5 THEN ValidationError
    ELSE IF durationMinutes > 480 THEN ValidationError
    ELSE IF durationMinutes % 5 # 0 THEN ValidationError
    ELSE NoError

ProductValidateBusinessRules(type, durationMinutes, stockLevel, lowStockThreshold) ==
    LET durationErr ==
            IF RequiresDuration(type)
            THEN IF durationMinutes = Undefined THEN BusinessRuleViolationError
                 ELSE ProductValidateDuration(durationMinutes)
            ELSE IF durationMinutes # Undefined THEN BusinessRuleViolationError
                 ELSE NoError
        stockErr ==
            IF RequiresInventory(type)
            THEN IF stockLevel # Undefined /\ stockLevel < 0 THEN ValidationError
                 ELSE IF lowStockThreshold # Undefined /\ lowStockThreshold < 0
                     THEN ValidationError
                 ELSE NoError
            ELSE IF stockLevel # Undefined \/ lowStockThreshold # Undefined
                     THEN BusinessRuleViolationError
                 ELSE NoError
    IN  IF durationErr # NoError THEN durationErr ELSE stockErr

\* new Product(props)
ProductConstruct(props) ==
    LET e1 == ProductValidateName(props.name)
        e2 == ProductValidateDescription(props.description)
        e3 == ProductValidateBusinessRules(props.type, props.durationMinutes,
                                           props.stockLevel, props.lowStockThreshold)
        e  == IF e1 # NoError THEN e1 ELSE IF e2 # NoError THEN e2 ELSE e3
    IN  IF e # NoError THEN [err |-> e, value |-> NoProduct]
        ELSE [err |-> NoError,
              value |-> [exists |-> TRUE, name |-> props.name,
                         description |-> props.description, type |-> props.type,
                         isActive |-> props.isActive,
                         durationMinutes |-> props.durationMinutes,
                         stockLevel |-> props.stockLevel,
                         lowStockThreshold |-> props.lowStockThreshold]]

ProductUpdateDuration(p, durationMinutes) ==
    IF ~RequiresDuration(p.type) THEN [err |-> BusinessRuleViolationError, value |-> p]
    ELSE LET e == ProductValidateDuration(durationMinutes)
         IN  IF e # NoError THEN [err |-> e, value |-> p]
             ELSE [err |-> NoError, value |-> [p EXCEPT !.durationMinutes = durationMinutes]]

\* restockItem checking the quantity before the product type
ProductRestockItem_QuantityFirst(p, quantity) ==
    IF quantity < 0 THEN [err |-> ValidationError, value |-> p]
    ELSE IF ~RequiresInventory(p.type) THEN [err |-> BusinessRuleViolationError, value |-> p]
    ELSE [err |-> NoError,
          value |-> [p EXCEPT !.stockLevel = OrZero(p.stockLevel) + quantity]]

ProductRestockItem(p, quantity) ==
    IF ~RequiresInventory(p.type) THEN [err |-> BusinessRuleViolationError, value |-> p]
    ELSE IF quantity < 0 THEN [err |-> ValidationError, value |-> p]
    ELSE [err |-> NoError,
          value |-> [p EXCEPT !.stockLevel = OrZero(p.stockLevel) + quantity]]

\* reduceStock that subtracts whatever the stock is
ProductReduceStock_Unchecked(p, quantity) ==
    IF ~RequiresInventory(p.type) THEN [err |-> BusinessRuleViolationError, value |-> p]
    ELSE IF quantity < 0 THEN [err |-> ValidationError, value |-> p]
    ELSE [err |-> NoError,
          value |-> [p EXCEPT !.stockLevel = OrZero(p.stockLevel) - quantity]]

ProductReduceStock(p, quantity) ==
    IF ~RequiresInventory(p.type) THEN [err |-> BusinessRuleViolationError, value |-> p]
    ELSE IF quantity < 0 THEN [err |-> ValidationError, value |-> p]
    ELSE IF quantity > OrZero(p.stockLevel)
        THEN [err |-> BusinessRuleViolationError, value |-> p]
    ELSE [err |-> NoError,
          value |-> [p EXCEPT !.stockLevel = OrZero(p.stockLevel) - quantity]]

ProductMarkAsOutOfStock(p) ==
    IF ~RequiresInventory(p.type) THEN [err |-> BusinessRuleViolationError, value |-> p]
    ELSE [err |-> NoError, value |-> [p EXCEPT !.stockLevel = 0]]

ProductUpdateStockThreshold(p, threshold) ==
    IF ~RequiresInventory(p.type) THEN [err |-> BusinessRuleViolationError, value |-> p]
    ELSE IF threshold < 0 THEN [err |-> ValidationError, value |-> p]
    ELSE [err |-> NoError, value |-> [p EXCEPT !.lowStockThreshold = threshold]]

\* isOutOfStock()
ProductIsOutOfStock(p) ==
    IF ~RequiresInventory(p.type) THEN FALSE
    ELSE OrZero(p.stockLevel) = 0

\* isLowStock()
ProductIsLowStock(p) ==
    IF ~RequiresInventory(p.type) THEN FALSE
    ELSE LET currentStock == OrZero(p.stockLevel)
             threshold    == OrZero(p.lowStockThreshold)
         IN  currentStock <= threshold /\ currentStock > 0

(***************************************************************************)
(* Product actions                                                         *)
(***************************************************************************)
NewProduct ==
    /\ op.name = "init"
    /\ \E props \in ProductPropsSpace :
         LET r == ProductConstruct(props)
         IN  /\ product' = r.value
             /\ op' = [name |-> "newProduct", arg |-> props, err |-> r.err]
    /\ UNCHANGED <<client, menuItem, customer, db, calls>>

UpdateDuration ==
    /\ product.exists
    /\ \E d \in Durations :
         LET r == ProductUpdateDuration(product, d)
         IN  /\ product' = r.value
             /\ op' = [name |-> "updateDuration", arg |-> d, err |-> r.err]
    /\ UNCHANGED <<client, menuItem, customer, db, calls>>

\* stock is kept within MaxStock
RestockItem ==
    /\ product.exists
    /\ \E q \in Quantities :
         LET r == ProductRestockItem(product, q)
         IN  /\ r.value.stockLevel <= MaxStock
             /\ product' = r.value
             /\ op' = [name |-> "restockItem", arg |-> q, err |-> r.err]
    /\ UNCHANGED <<client, menuItem, customer, db, calls>>

ReduceStock ==
    /\ product.exists
    /\ \E q \in Quantities :
         LET r == ProductReduceStock(product, q)
         IN  /\ product' = r.value
             /\ op' = [name |-> "reduceStock", arg |-> q, err |-> r.err]
    /\ UNCHANGED <<client, menuItem, customer, db, calls>>

MarkAsOutOfStock ==
    /\ product.exists
    /\ LET r == ProductMarkAsOutOfStock(product)
       IN  /\ product' = r.value
           /\ op' = [name |-> "markAsOutOfStock", arg |-> 0, err |-> r.err]
    /\ UNCHANGED <<client, menuItem, customer, db, calls>>

UpdateStockThreshold ==
    /\ product.exists
    /\ \E t \in Quantities :
         LET r == ProductUpdateStockThreshold(product, t)
         IN  /\ product' = r.value
             /\ op' = [name |-> "updateStockThreshold", arg |-> t, err |-> r.err]
    /\ UNCHANGED <<client, menuItem, customer, db, calls>>

(***************************************************************************)
(* LoyaltyPoints (value object over a number; the model's numbers are      *)
(* integers, so the typeof and Number.isInteger checks always pass)        *)
(***************************************************************************)
MIN_POINTS == 0
MAX_POINTS == 999999

\* validate without the upper limit
LoyaltyPointsValidate_NoMax(value) ==
    IF value < MIN_POINTS THEN ValidationError ELSE NoError

LoyaltyPointsValidate(value) ==
    IF value < MIN_POINTS THEN ValidationError
    ELSE IF value > MAX_POINTS THEN ValidationError
    ELSE NoError

\* LoyaltyPoints.create(points) = new LoyaltyPoints(points)
LoyaltyPointsCreate(points) ==
    [err |-> LoyaltyPointsValidate(points), value |-> points]

LoyaltyPointsZero == LoyaltyPointsCreate(0).value

\* add that stops at the cap instead of failing
LoyaltyPointsAdd_Clamp(value, points) ==
    IF points < 0 THEN [err |-> BusinessRuleViolationError, value |-> value]
    ELSE IF value + points > MAX_POINTS THEN [err |-> NoError, value |-> MAX_POINTS]
    ELSE LoyaltyPointsCreate(value + points)

LoyaltyPointsAdd(value, points) ==
    IF points < 0 THEN [err |-> BusinessRuleViolationError, value |-> value]
    ELSE LoyaltyPointsCreate(value + points)

LoyaltyPointsSubtract(value, points) ==
    IF points < 0 THEN [err |-> BusinessRuleViolationError, value |-> value]
    ELSE IF value < points THEN [err |-> BusinessRuleViolationError, value |-> value]
    ELSE LoyaltyPointsCreate(value - points)

\* canRedeem demanding more than the required points
LoyaltyPointsCanRedeem_Strict(value, requiredPoints) == value > requiredPoints

LoyaltyPointsCanRedeem(value, requiredPoints) == value >= requiredPoints

(***************************************************************************)
(* Customer: the name (its trimmed length), the loyalty points, the visit  *)
(* count and updatedAt (a clock reading; touch() advances it).             *)
(***************************************************************************)
NoCustomer ==
    [exists |-> FALSE, isActive |-> TRUE, name |-> 2, loyaltyPoints |-> 0,
     totalVisits |-> 0, updatedAt |-> 0]

CustomerValidateName(name) ==
    IF name = 0 THEN ValidationError
    ELSE IF name < 2 THEN ValidationError
    ELSE IF name > 100 THEN ValidationError
    ELSE NoError

\* Entity.touch()
Touch(c) == [c EXCEPT !.updatedAt = c.updatedAt + 1]

\* new Customer(props); props.loyaltyPoints is a LoyaltyPoints instance
CustomerConstruct(props) ==
    LET e == CustomerValidateName(props.name)
    IN  IF e # NoError THEN [err |-> e, value |-> NoCustomer]
        ELSE [err |-> NoError,
              value |-> [exists |-> TRUE, isActive |-> IsActiveOrTrue(props),
                         name |-> props.name,
                         loyaltyPoints |-> props.loyaltyPoints,
                         totalVisits |-> OrZero(props.totalVisits),
                         updatedAt |-> props.updatedAt]]

\* Customer.create(props); a missing props.loyaltyPoints is Undefined
CustomerCreate(props) ==
    CustomerConstruct([name |-> props.name,
                       loyaltyPoints |-> IF props.loyaltyPoints = Undefined
                                         THEN LoyaltyPointsZero
                                         ELSE props.loyaltyPoints,
                       totalVisits |-> OrZero(props.totalVisits),
                       updatedAt |-> 0])

CustomerAddLoyaltyPoints(c, points) ==
    LET r == LoyaltyPointsAdd(c.loyaltyPoints, points)
    IN  IF r.err # NoError THEN [err |-> r.err, value |-> c]
        ELSE [err |-> NoError, value |-> Touch([c EXCEPT !.loyaltyPoints = r.value])]

CustomerRedeemLoyaltyPoints(c, points) ==
    IF ~LoyaltyPointsCanRedeem(c.loyaltyPoints, points)
    THEN [err |-> BusinessRuleViolationError, value |-> c]
    ELSE LET r == LoyaltyPointsSubtract(c.loyaltyPoints, points)
         IN  IF r.err # NoError THEN [err |-> r.err, value |-> c]
             ELSE [err |-> NoError,
                   value |-> Touch([c EXCEPT !.loyaltyPoints = r.value])]

CustomerRecordVisit(c) ==
    [err |-> NoError, value |-> Touch([c EXCEPT !.totalVisits = c.totalVisits + 1])]

(***************************************************************************)
(* Customer persistence and CreateCustomer                                 *)
(***************************************************************************)
\* CustomerMapper.toDomain(prismaCustomer)
CustomerMapperToDomain(row) ==
    LET lp == LoyaltyPointsCreate(row.loyaltyPoints)
    IN  IF lp.err # NoError THEN [err |-> lp.err, value |-> NoCustomer]
        ELSE CustomerConstruct([name |-> row.name, isActive |-> row.isActive,
                                loyaltyPoints |-> lp.value,
                                totalVisits |-> row.totalVisits,
                                updatedAt |-> row.updatedAt])

\* CustomerRepository.create(customer): the row written, mapped back
CustomerRepositoryCreate(c) ==
    CustomerMapperToDomain([name |-> c.name, isActive |-> c.isActive,
                            loyaltyPoints |-> c.loyaltyPoints,
                            totalVisits |-> c.totalVisits, updatedAt |-> c.updatedAt])

\* CreateCustomer.execute handing the caller's points and visits to the factory
CreateCustomerExecute_FromRequest(request, duplicate) ==
    IF ~request.contactValid THEN [err |-> ValidationError, value |-> NoCustomer]
    ELSE IF duplicate THEN [err |-> ConflictError, value |-> NoCustomer]
    ELSE LET lp == LoyaltyPointsCreate(OrZero(request.loyaltyPoints))
             c == CustomerCreate([name |-> request.name,
                                  loyaltyPoints |-> lp.value,
                                  totalVisits |-> request.totalVisits])
         IN  IF lp.err # NoError THEN [err |-> lp.err, value |-> NoCustomer]
             ELSE IF c.err # NoError THEN c
             ELSE CustomerRepositoryCreate(c.value)

\* CreateCustomer.execute(request); contactValid says whether Email.create and
\* Phone.create accept the request, duplicate whether findByEmail or
\* findByPhone finds a customer
CreateCustomerExecute(request, duplicate) ==
    IF ~request.contactValid THEN [err |-> ValidationError, value |-> NoCustomer]
    ELSE IF duplicate THEN [err |-> ConflictError, value |-> NoCustomer]
    ELSE LET c == CustomerCreate([name |-> request.name,
                                  loyaltyPoints |-> LoyaltyPointsZero,
                                  totalVisits |-> 0])
         IN  IF c.err # NoError THEN c
             ELSE CustomerRepositoryCreate(c.value)

(***************************************************************************)
(* Customer actions.  op also keeps the balance before the call and the    *)
(* call before it.                                                         *)
(***************************************************************************)
MaxTouches == 3         \* updatedAt ranges over 0..MaxTouches

PointsGiven == {Undefined, -1, 0, 1, 499, MAX_POINTS, MAX_POINTS + 1}
VisitsGiven == {Undefined, 0, 2}
PointArgs == {-1, 0, 1, 2, 500, MAX_POINTS - 1, MAX_POINTS, MAX_POINTS + 1}

NoPrev == [name |-> "init", arg |-> 0, err |-> NoError, before |-> 0]

PrevOf(o) == [name |-> o.name, arg |-> o.arg, err |-> o.err, before |-> o.before]

\* Customer.create({..., loyaltyPoints: LoyaltyPoints.create(points), totalVisits})
NewCustomer ==
    /\ op.name = "init"
    /\ \E name \in {1, 2}, points \in PointsGiven, visits \in VisitsGiven :
         LET lp == IF points = Undefined THEN [err |-> NoError, value |-> Undefined]
                   ELSE LoyaltyPointsCreate(points)
             r  == IF lp.err # NoError THEN [err |-> lp.err, value |-> NoCustomer]
                   ELSE CustomerCreate([name |-> name, loyaltyPoints |-> lp.value,
                                        totalVisits |-> visits])
         IN  /\ customer' = r.value
             /\ op' = [name |-> "newCustomer", arg |-> 0, err |-> r.err,
                       before |-> 0, prev |-> NoPrev,
                       given |-> [name |-> name, loyaltyPoints |-> points,
                                  totalVisits |-> visits]]
    /\ UNCHANGED <<client, menuItem, product, db, calls>>

CreateCustomer ==
    /\ op.name = "init"
    /\ \E name \in {1, 2}, points \in PointsGiven, visits \in VisitsGiven,
          contactValid \in BOOLEAN, duplicate \in BOOLEAN :
         LET request == [name |-> name, contactValid |-> contactValid,
                         loyaltyPoints |-> points, totalVisits |-> visits]
             r == CreateCustomerExecute(request, duplicate)
         IN  /\ customer' = r.value
             /\ op' = [name |-> "CreateCustomer", arg |-> 0, err |-> r.err,
                       before |-> 0, prev |-> NoPrev, given |-> request]
    /\ UNCHANGED <<client, menuItem, product, db, calls>>

AddLoyaltyPoints ==
    /\ customer.exists
    /\ \E points \in PointArgs :
         LET r == CustomerAddLoyaltyPoints(customer, points)
         IN  /\ r.value.updatedAt <= MaxTouches
             /\ customer' = r.value
             /\ op' = [name |-> "addLoyaltyPoints", arg |-> points, err |-> r.err,
                       before |-> customer.loyaltyPoints, prev |-> PrevOf(op)]
    /\ UNCHANGED <<client, menuItem, product, db, calls>>

RedeemLoyaltyPoints ==
    /\ customer.exists
    /\ \E points \in PointArgs :
         LET r == CustomerRedeemLoyaltyPoints(customer, points)
         IN  /\ r.value.updatedAt <= MaxTouches
             /\ customer' = r.value
             /\ op' = [name |-> "redeemLoyaltyPoints", arg |-> points, err |-> r.err,
                       before |-> customer.loyaltyPoints, prev |-> PrevOf(op)]
    /\ UNCHANGED <<client, menuItem, product, db, calls>>

RecordVisit ==
    /\ customer.exists
    /\ LET r == CustomerRecordVisit(customer)
       IN  /\ r.value.updatedAt <= MaxTouches
           /\ customer' = r.value
           /\ op' = [name |-> "recordVisit", arg |-> 0, err |-> r.err,
                     before |-> customer.loyaltyPoints, prev |-> PrevOf(op)]
    /\ UNCHANGED <<client, menuItem, product, db, calls>>

(***************************************************************************)
(* Loyalty tiers                                                           *)
(***************************************************************************)
\* getTierLevel with the thresholds excluded from the higher tier
LoyaltyPointsGetTierLevel_Exclusive(value) ==
    IF value > 2000 THEN "Platinum"
    ELSE IF value > 1000 THEN "Gold"
    ELSE IF value > 500 THEN "Silver"
    ELSE "Bronze"

LoyaltyPointsGetTierLevel(value) ==
    IF value >= 2000 THEN "Platinum"
    ELSE IF value >= 1000 THEN "Gold"
    ELSE IF value >= 500 THEN "Silver"
    ELSE "Bronze"

\* the discount in hundredths: 15 stands for the 0.15 the code returns
LoyaltyPointsGetDiscountPercentage(value) ==
    LET tier == LoyaltyPointsGetTierLevel(value)
    IN  CASE tier = "Platinum" -> 15
          [] tier = "Gold" -> 10
          [] tier = "Silver" -> 5
          [] tier = "Bronze" -> 0

Tiers == {"Bronze", "Silver", "Gold", "Platinum"}

\* the where clause of CustomerRepository.findByLoyaltyTier(tier) applied to
\* one row: gte <= loyaltyPoints and, where lt is given, loyaltyPoints < lt
FindByLoyaltyTierMatches(tier, loyaltyPoints) ==
    CASE tier = "Bronze" -> loyaltyPoints >= 0 /\ loyaltyPoints < 500
      [] tier = "Silver" -> loyaltyPoints >= 500 /\ loyaltyPoints < 1000
      [] tier = "Gold" -> loyaltyPoints >= 1000 /\ loyaltyPoints < 2000
      [] tier = "Platinum" -> loyaltyPoints >= 2000

(***************************************************************************)
(* Tier actions: the customer is one with a balance next to a threshold    *)
(* or to an end of the range                                               *)
(***************************************************************************)
TierWindow == 3         \* balances up to TierWindow away from a threshold

TierPoints ==
    {t + d : t \in {MIN_POINTS, 500, 1000, 2000, MAX_POINTS}, d \in -TierWindow..TierWindow}
        \cap (MIN_POINTS..MAX_POINTS)

GetLoyaltyTier ==
    /\ op' = [name |-> "getLoyaltyTier", arg |-> 0, err |-> NoError,
              result |-> LoyaltyPointsGetTierLevel(customer.loyaltyPoints)]
    /\ UNCHANGED <<client, menuItem, product, customer, db, calls>>

GetDiscountPercentage ==
    /\ op' = [name |-> "getDiscountPercentage", arg |-> 0, err |-> NoError,
              result |-> LoyaltyPointsGetDiscountPercentage(customer.loyaltyPoints)]
    /\ UNCHANGED <<client, menuItem, product, customer, db, calls>>

FindByLoyaltyTier ==
    /\ \E tier \in Tiers :
         op' = [name |-> "findByLoyaltyTier", arg |-> tier, err |-> NoError,
                result |-> FindByLoyaltyTierMatches(tier, customer.loyaltyPoints)]
    /\ UNCHANGED <<client, menuItem, product, customer, db, calls>>

(***************************************************************************)
(* In-memory MenuItemRepository.  The Map is a sequence in insertion order *)
(* of [id, title, item]: title identifies the name (names that differ only *)
(* in case have one title), item is the MenuItem.                          *)
(***************************************************************************)
MaxItems == 3           \* entries a repository holds at most
MaxIds == 4             \* ids handed out: 1..MaxIds

Titles == {1, 2, 3}
Ids == 1..MaxIds

\* Math.max over a set of numbers and 0
MaxWithZero(S) == CHOOSE m \in S \cup {0} : \A x \in S \cup {0} : x <= m

\* the positions of store whose entry has the id
PositionsOfId(store, id) == {i \in 1..Len(store) : store[i].id = id}

\* Map.get(id) || null: found is FALSE for null
RepositoryFindById(store, id) ==
    LET P == PositionsOfId(store, id)
    IN  IF P = {} THEN [found |-> FALSE, index |-> 0]
        ELSE [found |-> TRUE, index |-> CHOOSE i \in P : TRUE]

\* Map.has(id)
RepositoryExists(store, id) == PositionsOfId(store, id) # {}

\* update(id, partial): returns the stored entry, changes nothing
RepositoryUpdate(store, id) ==
    IF ~RepositoryFindById(store, id).found
    THEN [err |-> NotFoundError, store |-> store]
    ELSE [err |-> NoError, store |-> store]

\* delete that removes the entry and every entry stored after it
RepositoryDelete_Truncate(store, id) ==
    IF ~RepositoryFindById(store, id).found
    THEN [err |-> NotFoundError, store |-> store]
    ELSE [err |-> NoError,
          store |-> SubSeq(store, 1, RepositoryFindById(store, id).index - 1)]

\* delete(id)
RepositoryDelete(store, id) ==
    IF ~RepositoryFindById(store, id).found
    THEN [err |-> NotFoundError, store |-> store]
    ELSE [err |-> NoError, store |-> SelectSeq(store, LAMBDA e : e.id # id)]

\* save(entity) that sets without looking for the title
RepositorySave_NoCheck(store, entry) ==
    IF RepositoryExists(store, entry.id)
    THEN [err |-> NoError,
          store |-> [i \in 1..Len(store) |->
                        IF store[i].id = entry.id THEN entry ELSE store[i]]]
    ELSE [err |-> NoError, store |-> Append(store, entry)]

\* save(entity): ConflictError when another id holds the title, else Map.set
RepositorySave(store, entry) ==
    IF \E i \in 1..Len(store) : store[i].id # entry.id /\ store[i].title = entry.title
    THEN [err |-> ConflictError, store |-> store]
    ELSE IF RepositoryExists(store, entry.id)
        THEN [err |-> NoError,
              store |-> [i \in 1..Len(store) |->
                            IF store[i].id = entry.id THEN entry ELSE store[i]]]
        ELSE [err |-> NoError, store |-> Append(store, entry)]

MenuItemRepositoryFindByName(store, title) ==
    \E i \in 1..Len(store) : store[i].title = title

MenuItemRepositoryFindByDisplayOrder(store, order) ==
    \E i \in 1..Len(store) : store[i].item.displayOrder = order

\* a category argument or filter that is not given
NoCategory == "undefined"

\* getNextDisplayOrder(category); without a category every item counts
MenuItemRepositoryGetNextDisplayOrder(store, category) ==
    MaxWithZero({store[i].item.displayOrder :
                    i \in {j \in 1..Len(store) :
                              category = NoCategory \/ store[j].item.category = category}}) + 1

(***************************************************************************)
(* CreateMenuItem.  A request carries a name (its title), a category and   *)
(* an optional displayOrder; its other fields are valid and left out:      *)
(* a description of 10 characters, a name of 3, a duration, a price, no    *)
(* isPackage flag, no included services, no dates.                         *)
(***************************************************************************)
RepoCategories == {"HAIR_SERVICES", "NAIL_SERVICES", "GIFT_PACKAGES"}
OrdersGiven == {Undefined, -1, 1, 2}

\* CreateMenuItem.validateInput
CreateMenuItemValidateInput(request) ==
    IF request.displayOrder # Undefined /\ request.displayOrder < 0
    THEN ValidationError ELSE NoError

\* CreateMenuItem.checkForDuplicates
CreateMenuItemCheckForDuplicates(store, request) ==
    IF MenuItemRepositoryFindByName(store, request.title) THEN ConflictError
    ELSE IF request.displayOrder # Undefined
            /\ MenuItemRepositoryFindByDisplayOrder(store, request.displayOrder)
        THEN ConflictError
    ELSE NoError

\* CreateMenuItem.execute(request) on the repository state d
CreateMenuItemExecute(d, request) ==
    LET e1 == CreateMenuItemValidateInput(request)
        e2 == CreateMenuItemCheckForDuplicates(d.menuItems, request)
        displayOrder ==
            IF request.displayOrder # Undefined THEN request.displayOrder
            ELSE MenuItemRepositoryGetNextDisplayOrder(d.menuItems, request.category)
        m == MenuItemConstruct(
                 [name |-> 3, description |-> 10, displayOrder |-> displayOrder,
                  category |-> request.category,
                  isPackage |-> MenuCategoryIsPackage(request.category),
                  includedServices |-> <<>>,
                  advanceBookingRequired |->
                      MenuCategoryRequiresAdvanceBooking(request.category),
                  advanceBookingDays |-> Undefined, seasonalItem |-> FALSE,
                  validFrom |-> Undefined, validTo |-> Undefined])
        s == RepositorySave(d.menuItems,
                            [id |-> d.nextId, title |-> request.title, item |-> m.value])
    IN  IF e1 # NoError THEN [err |-> e1, db |-> d]
        ELSE IF e2 # NoError THEN [err |-> e2, db |-> d]
        ELSE IF m.err # NoError THEN [err |-> m.err, db |-> d]
        ELSE IF s.err # NoError THEN [err |-> s.err, db |-> d]
        ELSE [err |-> NoError,
              db |-> [d EXCEPT !.menuItems = s.store, !.nextId = d.nextId + 1]]

StoredCategories == {"HAIR_SERVICES", "NAIL_SERVICES"}

\* MenuItemRepository.create(menuItem) for a MenuItem with a new id, built by
\* MenuItem.create with the given category and displayOrder
MenuItemRepositoryCreate(d, title, category, displayOrder) ==
    LET m == MenuItemConstruct(
                 [name |-> 3, description |-> 10, displayOrder |-> displayOrder,
                  category |-> category, isPackage |-> FALSE,
                  includedServices |-> <<>>, advanceBookingRequired |-> FALSE,
                  advanceBookingDays |-> Undefined, seasonalItem |-> FALSE,
                  validFrom |-> Undefined, validTo |-> Undefined])
        s == RepositorySave(d.menuItems,
                            [id |-> d.nextId, title |-> title, item |-> m.value])
    IN  IF m.err # NoError THEN [err |-> m.err, db |-> d]
        ELSE IF s.err # NoError THEN [err |-> s.err, db |-> d]
        ELSE [err |-> NoError,
              db |-> [d EXCEPT !.menuItems = s.store, !.nextId = d.nextId + 1]]

(***************************************************************************)
(* In-memory ClientRepository: a sequence of [id, title, isActive], title  *)
(* identifying the company name.                                           *)
(***************************************************************************)
\* ClientRepository.create(client) for a client with a new id
ClientRepositoryCreate(d, title, isActive) ==
    LET s == RepositorySave(d.clients,
                            [id |-> d.nextId, title |-> title, isActive |-> isActive])
    IN  IF s.err # NoError THEN [err |-> s.err, db |-> d]
        ELSE [err |-> NoError,
              db |-> [d EXCEPT !.clients = s.store, !.nextId = d.nextId + 1]]

(***************************************************************************)
(* Repository actions                                                      *)
(***************************************************************************)
CreateMenuItem ==
    /\ \E title \in Titles, category \in RepoCategories, displayOrder \in OrdersGiven :
         LET request == [title |-> title, category |-> category,
                         displayOrder |-> displayOrder]
             r == CreateMenuItemExecute(db, request)
         IN  /\ Len(r.db.menuItems) <= MaxItems
             /\ r.db.nextId <= MaxIds + 1
             /\ db' = r.db
             /\ op' = [name |-> "CreateMenuItem", arg |-> request, err |-> r.err]
    /\ UNCHANGED <<client, menuItem, product, customer, calls>>

UpdateMenuItemById ==
    /\ \E id \in Ids :
         LET r == RepositoryUpdate(db.menuItems, id)
         IN  /\ db' = [db EXCEPT !.menuItems = r.store]
             /\ op' = [name |-> "updateMenuItem", arg |-> id, err |-> r.err]
    /\ UNCHANGED <<client, menuItem, product, customer, calls>>

DeleteMenuItemById ==
    /\ \E id \in Ids :
         LET r == RepositoryDelete(db.menuItems, id)
         IN  /\ db' = [db EXCEPT !.menuItems = r.store]
             /\ op' = [name |-> "deleteMenuItem", arg |-> id, err |-> r.err]
    /\ UNCHANGED <<client, menuItem, product, customer, calls>>

\* MenuItemRepository.create(menuItem) for a new MenuItem.  The two
\* repositories share no state: a run fills one of them.
SaveMenuItem ==
    /\ Len(db.clients) = 0
    /\ \E title \in Titles, category \in StoredCategories, displayOrder \in {1, 2} :
         LET r == MenuItemRepositoryCreate(db, title, category, displayOrder)
         IN  /\ Len(r.db.menuItems) <= MaxItems
             /\ r.db.nextId <= MaxIds + 1
             /\ db' = r.db
             /\ op' = [name |-> "saveMenuItem", arg |-> title, err |-> r.err]
    /\ UNCHANGED <<client, menuItem, product, customer, calls>>

CreateClientEntry ==
    /\ Len(db.menuItems) = 0
    /\ \E title \in Titles, isActive \in BOOLEAN :
         LET r == ClientRepositoryCreate(db, title, isActive)
         IN  /\ Len(r.db.clients) <= MaxItems
             /\ r.db.nextId <= MaxIds + 1
             /\ db' = r.db
             /\ op' = [name |-> "createClient", arg |-> title, err |-> r.err]
    /\ UNCHANGED <<client, menuItem, product, customer, calls>>

UpdateClientById ==
    /\ \E id \in Ids :
         LET r == RepositoryUpdate(db.clients, id)
         IN  /\ db' = [db EXCEPT !.clients = r.store]
             /\ op' = [name |-> "updateClient", arg |-> id, err |-> r.err]
    /\ UNCHANGED <<client, menuItem, product, customer, calls>>

DeleteClientById ==
    /\ \E id \in Ids :
         LET r == RepositoryDelete(db.clients, id)
         IN  /\ db' = [db EXCEPT !.clients = r.store]
             /\ op' = [name |-> "deleteClient", arg |-> id, err |-> r.err]
    /\ UNCHANGED <<client, menuItem, product, customer, calls>>

(***************************************************************************)
(* Listing: filter, sort, slice.  Both repositories sort with the          *)
(* comparator (a, b) => a > b ? 1 : -1 (b > a for 'desc'), which never     *)
(* answers 0, so the order of equal keys is the engine's: sortEngine names *)
(* the insertion sort that runs, and stays the same from call to call.     *)
(***************************************************************************)
MaxPage == 4            \* pages asked for: 1..MaxPage
MaxPageSize == 2        \* page sizes asked for: 1..MaxPageSize

SortEngines == {"insertFromRight", "binaryInsert"}
Directions == {"asc", "desc"}

\* Array.prototype.slice(start, end)
JsSlice(s, start, end) ==
    LET len  == Len(s)
        from == IF start < 0 THEN (IF len + start < 0 THEN 0 ELSE len + start)
                ELSE (IF start > len THEN len ELSE start)
        to   == IF end < 0 THEN (IF len + end < 0 THEN 0 ELSE len + end)
                ELSE (IF end > len THEN len ELSE end)
    IN  IF from >= to THEN <<>> ELSE SubSeq(s, from + 1, to)

\* the quotient rounded down, which drops a last page that is not full
MathCeil_Floor(total, limit) == total \div limit

\* Math.ceil(total / limit) for total >= 0 and limit # 0
MathCeil(total, limit) ==
    IF limit < 0 THEN 0 - (total \div (0 - limit))
    ELSE IF total % limit = 0 THEN total \div limit
    ELSE (total \div limit) + 1

\* the comparator of the sort callbacks
CompareFn(aValue, bValue, orderDirection) ==
    IF orderDirection = "desc"
    THEN (IF bValue > aValue THEN 1 ELSE -1)
    ELSE (IF aValue > bValue THEN 1 ELSE -1)

\* how many entries of the sorted prefix stay in front of x: insertFromRight
\* shifts the entries e with comparefn(e, x) > 0, binaryInsert goes left of e
\* when comparefn(x, e) < 0
InsertPosition(sorted, x, orderDirection, sortEngine) ==
    IF sortEngine = "insertFromRight"
    THEN Cardinality({i \in 1..Len(sorted) :
                         ~(CompareFn(sorted[i].key, x.key, orderDirection) > 0)})
    ELSE Cardinality({i \in 1..Len(sorted) :
                         ~(CompareFn(x.key, sorted[i].key, orderDirection) < 0)})

RECURSIVE ArraySort(_, _, _)
\* Array.prototype.sort with the comparator, on entries [key, id]
ArraySort(list, orderDirection, sortEngine) ==
    IF Len(list) = 0 THEN <<>>
    ELSE LET sorted == ArraySort(SubSeq(list, 1, Len(list) - 1), orderDirection, sortEngine)
             x == list[Len(list)]
             k == InsertPosition(sorted, x, orderDirection, sortEngine)
         IN  SubSeq(sorted, 1, k) \o <<x>> \o SubSeq(sorted, k + 1, Len(sorted))

\* the destructuring defaults of the options
OptionsPage(options) == IF options.page = Undefined THEN 1 ELSE options.page
OptionsLimit(options) == IF options.limit = Undefined THEN 10 ELSE options.limit
OptionsOrderBy(options) ==
    IF "orderBy" \in DOMAIN options THEN options.orderBy ELSE "displayOrder"
OptionsOrderDirection(options) ==
    IF "orderDirection" \in DOMAIN options THEN options.orderDirection ELSE "asc"

\* sort, slice and count: the result's items are ids
SortAndPaginate(list, options) ==
    LET sorted == ArraySort(list, OptionsOrderDirection(options), options.sortEngine)
        page   == OptionsPage(options)
        limit  == OptionsLimit(options)
        total  == Len(sorted)
        offset == (page - 1) * limit
        paged  == JsSlice(sorted, offset, offset + limit)
    IN  [items |-> [i \in 1..Len(paged) |-> paged[i].id],
         page |-> page, limit |-> limit, total |-> total,
         pages |-> MathCeil(total, limit)]

\* the menu items by their sort key displayOrder
MenuItemsKeyed(store) ==
    [i \in 1..Len(store) |-> [key |-> store[i].item.displayOrder, id |-> store[i].id]]

\* the switch (orderBy) of findByFilters: name, createdAt (an item created
\* later has the greater id), displayOrder and the default; prices are not
\* modelled
MenuItemsKeyedBy(store, orderBy) ==
    [i \in 1..Len(store) |->
        [key |-> IF orderBy = "name" THEN store[i].title
                 ELSE IF orderBy = "createdAt" THEN store[i].id
                 ELSE store[i].item.displayOrder,
         id |-> store[i].id]]

\* the clients by their sort key companyName
ClientsKeyed(store) ==
    [i \in 1..Len(store) |-> [key |-> store[i].title, id |-> store[i].id]]

\* MenuItemRepository.findAll(options) without a search term
MenuItemRepositoryFindAll(store, options) ==
    SortAndPaginate(MenuItemsKeyed(store), options)

\* MenuItemRepository.findByFilters({category}, options)
MenuItemRepositoryFindByFilters(store, category, options) ==
    SortAndPaginate(
        MenuItemsKeyedBy(SelectSeq(store, LAMBDA e : category = NoCategory
                                                      \/ e.item.category = category),
                         OptionsOrderBy(options)),
        options)

\* ClientRepository.findByFilters({isActive}, options); filter.given is FALSE
\* for isActive undefined
ClientRepositoryFindByFilters(store, filter, options) ==
    SortAndPaginate(
        ClientsKeyed(SelectSeq(store, LAMBDA e : ~filter.given
                                                  \/ e.isActive = filter.isActive)),
        options)

OptionsSpace ==
    [page : 1..MaxPage, limit : 1..MaxPageSize, orderDirection : Directions,
     sortEngine : SortEngines]

(***************************************************************************)
(* Listing actions.  A listing reads: the states after two listings in a   *)
(* row are the states after one, so a listing is taken after a write.      *)
(***************************************************************************)
ListingCalls == {"menuFindAll", "menuFindByFilters", "clientFindByFilters"}

MenuFindAll ==
    /\ op.name \notin ListingCalls
    /\ \E options \in OptionsSpace :
         op' = [name |-> "menuFindAll", arg |-> options, filter |-> NoCategory,
                err |-> NoError,
                result |-> MenuItemRepositoryFindAll(db.menuItems, options)]
    /\ UNCHANGED <<client, menuItem, product, customer, db, calls>>

MenuFindByFilters ==
    /\ op.name \notin ListingCalls
    /\ \E options \in OptionsSpace, category \in StoredCategories \cup {NoCategory} :
         op' = [name |-> "menuFindByFilters", arg |-> options, filter |-> category,
                err |-> NoError,
                result |-> MenuItemRepositoryFindByFilters(db.menuItems, category,
                                                           options)]
    /\ UNCHANGED <<client, menuItem, product, customer, db, calls>>

ClientFindByFilters ==
    /\ op.name \notin ListingCalls
    /\ \E options \in OptionsSpace,
          filter \in {[given |-> FALSE, isActive |-> FALSE],
                      [given |-> TRUE, isActive |-> FALSE],
                      [given |-> TRUE, isActive |-> TRUE]} :
         op' = [name |-> "clientFindByFilters", arg |-> options, filter |-> filter,
                err |-> NoError,
                result |-> ClientRepositoryFindByFilters(db.clients, filter, options)]
    /\ UNCHANGED <<client, menuItem, product, customer, db, calls>>

(***************************************************************************)
(* List use cases: GetCustomers and GetProducts page through Prisma, which *)
(* answers with the number of rows the where clause matches; GetClients    *)
(* and GetMenuItems page through the in-memory repositories.               *)
(***************************************************************************)
LimitsGiven == {Undefined, -1, 0, 1, 2, 100, 101, 1000}
PagesGiven == {Undefined, 2}
RowCounts == {0, 1, 3, 100, 101, 250}
NoSortOrder == "undefined"
NoSortBy == "undefined"
Days == {Undefined, 5}

\* x || fallback for an optional number
OrDefault(x, fallback) == IF Truthy(x) THEN x ELSE fallback

\* Math.min without the cap
MathMin_Left(a, b) == a

MathMin(a, b) == IF a < b THEN a ELSE b

\* CustomerRepository.search(options): the pagination reported when the where
\* clause matches total rows
CustomerRepositorySearch(total, options) ==
    LET page  == OptionsPage(options)
        limit == OptionsLimit(options)
    IN  [page |-> page, limit |-> limit, total |-> total,
         pages |-> MathCeil(total, limit)]

\* ProductRepository.searchProducts(searchOptions), likewise
ProductRepositorySearchProducts(total, searchOptions) ==
    LET page  == OrDefault(searchOptions.page, 1)
        limit == MathMin(OrDefault(searchOptions.limit, 10), 100)
    IN  [page |-> page, limit |-> limit, total |-> total,
         pages |-> MathCeil(total, limit)]

\* MenuItemRepository.findAvailableItemsForDate(date, options): stored items
\* are active; the list is sliced in the Map's order
MenuItemRepositoryFindAvailableItemsForDate(store, date, options) ==
    LET menuItemList ==
            SelectSeq(store,
                LAMBDA e : ~e.item.seasonalItem
                           \/ (/\ ~(Truthy(e.item.validFrom) /\ date < e.item.validFrom)
                               /\ ~(Truthy(e.item.validTo) /\ date > e.item.validTo)))
        page   == OptionsPage(options)
        limit  == OptionsLimit(options)
        total  == Len(menuItemList)
        offset == (page - 1) * limit
        paged  == JsSlice(menuItemList, offset, offset + limit)
    IN  [items |-> [i \in 1..Len(paged) |-> paged[i].id],
         page |-> page, limit |-> limit, total |-> total,
         pages |-> MathCeil(total, limit)]

\* GetCustomers.execute(request): the options passed and the response
GetCustomersExecute(total, request) ==
    LET searchOptions == [page |-> OrDefault(request.page, 1),
                          limit |-> MathMin(OrDefault(request.limit, 10), 100)]
        result == CustomerRepositorySearch(total, searchOptions)
    IN  [passed |-> searchOptions,
         response |-> [total |-> result.total, page |-> result.page,
                       limit |-> result.limit, totalPages |-> result.pages]]

\* GetProducts.execute(request) with buildSearchOptions
GetProductsExecute(total, request) ==
    LET options == [page |-> OrDefault(request.page, 1),
                    limit |-> MathMin(OrDefault(request.limit, 10), 100)]
        result == ProductRepositorySearchProducts(total, options)
    IN  [passed |-> options,
         response |-> [total |-> result.total, page |-> result.page,
                       limit |-> result.limit, totalPages |-> result.pages]]

\* GetClients.execute(request): findOptions carries sortOrder, which
\* ClientRepository.findByFilters reads
GetClientsExecute(store, request, sortEngine) ==
    LET page  == OrDefault(request.page, 1)
        limit == MathMin(OrDefault(request.limit, 20), 100)
        findOptions == [page |-> page, limit |-> limit,
                        orderDirection |-> IF request.sortOrder = NoSortOrder
                                           THEN "asc" ELSE request.sortOrder,
                        sortEngine |-> sortEngine]
        result == ClientRepositoryFindByFilters(store, request.isActive, findOptions)
    IN  [passed |-> [page |-> page, limit |-> limit],
         response |-> [total |-> result.total, page |-> result.page,
                       limit |-> result.limit, totalPages |-> result.pages]]

\* GetMenuItems.execute(request): findOptions carries sortBy and sortOrder,
\* while MenuItemRepository reads orderBy and orderDirection
GetMenuItemsExecute(store, request, sortEngine) ==
    LET page  == OrDefault(request.page, 1)
        limit == MathMin(OrDefault(request.limit, 20), 100)
        findOptions ==
            [page |-> page, limit |-> limit,
             sortBy |-> IF request.sortBy = NoSortBy THEN "displayOrder"
                        ELSE request.sortBy,
             sortOrder |-> IF request.sortOrder = NoSortOrder THEN "asc"
                           ELSE request.sortOrder,
             sortEngine |-> sortEngine]
        result == IF request.availableForDate # Undefined
                  THEN MenuItemRepositoryFindAvailableItemsForDate(
                           store, request.availableForDate, findOptions)
                  ELSE MenuItemRepositoryFindByFilters(store, request.category,
                                                       findOptions)
    IN  [passed |-> [page |-> page, limit |-> limit],
         items |-> result.items,
         response |-> [total |-> result.total, page |-> result.page,
                       limit |-> result.limit, totalPages |-> result.pages]]

ListUseCases == {"getCustomers", "getProducts", "getClients", "getMenuItems"}

GetCustomers ==
    /\ op.name \notin ListUseCases
    /\ \E total \in RowCounts, request \in [page : PagesGiven, limit : LimitsGiven \ {-1}] :
         LET r == GetCustomersExecute(total, request)
         IN  op' = [name |-> "getCustomers", arg |-> request, err |-> NoError,
                    passed |-> r.passed, result |-> r.response]
    /\ UNCHANGED <<client, menuItem, product, customer, db, calls>>

GetProducts ==
    /\ op.name \notin ListUseCases
    /\ \E total \in RowCounts, request \in [page : PagesGiven, limit : LimitsGiven \ {-1}] :
         LET r == GetProductsExecute(total, request)
         IN  op' = [name |-> "getProducts", arg |-> request, err |-> NoError,
                    passed |-> r.passed, result |-> r.response]
    /\ UNCHANGED <<client, menuItem, product, customer, db, calls>>

GetClients ==
    /\ op.name \notin ListUseCases
    /\ \E sortEngine \in SortEngines,
          request \in [page : PagesGiven, limit : LimitsGiven,
                       sortOrder : {NoSortOrder, "desc"},
                       isActive : {[given |-> FALSE, isActive |-> FALSE],
                                   [given |-> TRUE, isActive |-> TRUE]}] :
         LET r == GetClientsExecute(db.clients, request, sortEngine)
         IN  op' = [name |-> "getClients", arg |-> request, err |-> NoError,
                    passed |-> r.passed, result |-> r.response]
    /\ UNCHANGED <<client, menuItem, product, customer, db, calls>>

GetMenuItems ==
    /\ op.name \notin ListUseCases
    /\ \E sortEngine \in SortEngines,
          request \in [page : PagesGiven, limit : LimitsGiven,
                       sortBy : {NoSortBy},
                       sortOrder : {NoSortOrder, "desc"},
                       category : {NoCategory, "HAIR_SERVICES"},
                       availableForDate : Days] :
         LET r == GetMenuItemsExecute(db.menuItems, request, sortEngine)
         IN  op' = [name |-> "getMenuItems", arg |-> request, err |-> NoError,
                    passed |-> r.passed, result |-> r.response]
    /\ UNCHANGED <<client, menuItem, product, customer, db, calls>>

\* GetMenuItems.execute with a sort, no filter and the default page, which
\* holds every stored item: result is the ids of the menuItems returned
SortRequests ==
    [page : {Undefined}, limit : {Undefined},
     sortBy : {NoSortBy, "name", "displayOrder", "createdAt"},
     sortOrder : {NoSortOrder, "asc", "desc"},
     category : {NoCategory}, availableForDate : {Undefined}]

GetSortedMenuItems ==
    /\ op.name # "getSortedMenuItems"
    /\ \E sortEngine \in SortEngines, request \in SortRequests :
         LET r == GetMenuItemsExecute(db.menuItems, request, sortEngine)
         IN  op' = [name |-> "getSortedMenuItems", arg |-> request, err |-> NoError,
                    result |-> r.items]
    /\ UNCHANGED <<client, menuItem, product, customer, db, calls>>

(***************************************************************************)
(* Product persistence: the products table holds one row (one product id). *)
(* A row has the columns of the Product the model keeps; a NULL column is  *)
(* Null.  ProductMapper converts between rows and Product entities.        *)
(***************************************************************************)
Null == -2000

NoRow ==
    [exists |-> FALSE, name |-> 2, description |-> 10, type |-> "SERVICE",
     isActive |-> TRUE, durationMinutes |-> 5, stockLevel |-> Null,
     lowStockThreshold |-> Null]

\* x || undefined
OrUndefined(x) == IF x = Null \/ x = Undefined \/ x = 0 THEN Undefined ELSE x

\* x || null
OrNull(x) == IF x = Null \/ x = Undefined \/ x = 0 THEN Null ELSE x

\* ProductMapper.toDomain(prismaProduct): new Product({...}), validation included
ProductMapperToDomain(row) ==
    ProductConstruct([name              |-> row.name,
                      description       |-> row.description,
                      type              |-> row.type,
                      isActive          |-> row.isActive,
                      durationMinutes   |-> OrUndefined(row.durationMinutes),
                      stockLevel        |-> OrUndefined(row.stockLevel),
                      lowStockThreshold |-> OrUndefined(row.lowStockThreshold)])

\* the columns written by ProductRepository.create and by prisma.product.update
\* with the data of ProductMapper.toPrismaUpdate
ProductMapperToPrismaUpdate(p) ==
    [exists            |-> TRUE,
     name              |-> p.name,
     description       |-> p.description,
     type              |-> p.type,
     isActive          |-> p.isActive,
     durationMinutes   |-> OrNull(p.durationMinutes),
     stockLevel        |-> OrNull(p.stockLevel),
     lowStockThreshold |-> OrNull(p.lowStockThreshold)]

\* ProductRepository.findById: value is the Product, found tells null apart
ProductRepositoryFindById(row) ==
    IF ~row.exists THEN [err |-> NoError, found |-> FALSE, value |-> NoProduct]
    ELSE LET r == ProductMapperToDomain(row)
         IN  [err |-> r.err, found |-> TRUE, value |-> r.value]

\* ProductRepository.update(id, product): row is the stored row afterwards,
\* value the Product it returns
ProductRepositoryUpdate(p) ==
    LET newRow == ProductMapperToPrismaUpdate(p)
        r == ProductMapperToDomain(newRow)
    IN  [err |-> r.err, row |-> newRow, value |-> r.value]

\* ProductRepository.create(product)
ProductRepositoryCreate(p) ==
    LET newRow == ProductMapperToPrismaUpdate(p)
        r == ProductMapperToDomain(newRow)
    IN  [err |-> r.err, row |-> newRow, value |-> r.value]

\* the Products that new Product(props) constructs
ProductInstances ==
    {ProductConstruct(props).value :
        props \in {q \in ProductPropsSpace : ProductConstruct(q).err = NoError}}

\* RestockProduct.execute({productId, request}): row is the stored row
\* afterwards, result the stockLevel of the response DTO
RestockProductExecute(row, quantity) ==
    LET f == ProductRepositoryFindById(row)
    IN  IF f.err # NoError THEN [err |-> f.err, row |-> row, result |-> Undefined]
        ELSE IF ~f.found THEN [err |-> NotFoundError, row |-> row, result |-> Undefined]
        ELSE IF f.value.type # "PHYSICAL_PRODUCT"
            THEN [err |-> BusinessRuleViolationError, row |-> row, result |-> Undefined]
        ELSE IF ~f.value.isActive
            THEN [err |-> BusinessRuleViolationError, row |-> row, result |-> Undefined]
        ELSE LET r == ProductRestockItem(f.value, quantity)
             IN  IF r.err # NoError
                 THEN [err |-> r.err, row |-> row, result |-> Undefined]
                 ELSE LET u == ProductRepositoryUpdate(r.value)
                      IN  [err |-> u.err, row |-> u.row,
                           result |-> u.value.stockLevel]

(***************************************************************************)
(* Product persistence actions                                             *)
(***************************************************************************)
SaveProduct ==
    /\ ~db.product.exists
    /\ \E p \in ProductInstances :
         LET r == ProductRepositoryCreate(p)
         IN  /\ db' = [db EXCEPT !.product = r.row]
             /\ op' = [name |-> "saveProduct", arg |-> p, err |-> r.err,
                       result |-> r.value.stockLevel]
    /\ UNCHANGED <<client, menuItem, product, customer, calls>>

RestockProduct ==
    /\ \E quantity \in Quantities :
         LET r == RestockProductExecute(db.product, quantity)
         IN  /\ r.row.stockLevel <= MaxStock
             /\ db' = [db EXCEPT !.product = r.row]
             /\ op' = [name |-> "RestockProduct", arg |-> quantity, err |-> r.err,
                       result |-> r.result]
    /\ UNCHANGED <<client, menuItem, product, customer, calls>>

GetProductById ==
    /\ LET f == ProductRepositoryFindById(db.product)
       IN  op' = [name |-> "GetProductById", arg |-> 0,
                  err |-> IF f.err # NoError THEN f.err
                          ELSE IF f.found THEN NoError ELSE NotFoundError,
                  result |-> f.value.stockLevel]
    /\ UNCHANGED <<client, menuItem, product, customer, db, calls>>

(***************************************************************************)
(* Concurrent CreateClient / CreateMenuItem executions.  An execution runs *)
(* from one await to the next without interruption; calls holds, for each  *)
(* execution, the await it is suspended at (pc) and its locals.  A         *)
(* repository method without an await of its own (findByCompanyName,       *)
(* findByName, getNextDisplayOrder, save) runs when it is called, and the  *)
(* caller resumes with its result later.  A request carries a name; its    *)
(* other fields are valid and it gives no displayOrder.                    *)
(***************************************************************************)
MaxCalls == 2

RequestNames ==
    [core : {"acme"}, upper : BOOLEAN, padded : BOOLEAN]
    \cup {[core |-> "bolt", upper |-> FALSE, padded |-> FALSE],
          [core |-> "", upper |-> FALSE, padded |-> TRUE]}

\* the key both repositories compare names by: name.toLowerCase() of the
\* trimmed name
NameKey(name) == StringToLowerCase(StringTrim(name))

\* validateInput: !request.companyName || request.companyName.trim().length === 0
CreateValidateName(name) ==
    IF StringTrim(name).core = "" THEN ValidationError ELSE NoError

\* the execution up to its first await: validateInput, then the lookup
\* by name that checkForDuplicates awaits
CreateStart(useCase, store, name) ==
    IF CreateValidateName(name) # NoError
    THEN [useCase |-> useCase, name |-> name, pc |-> "done", found |-> FALSE,
          order |-> Undefined, err |-> CreateValidateName(name)]
    ELSE [useCase |-> useCase, name |-> name, pc |-> "findByName",
          found |-> MenuItemRepositoryFindByName(store, NameKey(name)),
          order |-> Undefined, err |-> NoError]

StartCreateClient ==
    /\ Len(calls) < MaxCalls
    /\ Len(db.menuItems) = 0
    /\ \A i \in 1..Len(calls) : calls[i].useCase = "CreateClient"
    /\ \E name \in RequestNames :
         /\ calls' = Append(calls, CreateStart("CreateClient", db.clients, name))
         /\ op' = [name |-> "startCreateClient", arg |-> name,
                   err |-> CreateValidateName(name)]
    /\ UNCHANGED <<client, menuItem, product, customer, db>>

\* after the lookup: ConflictError, or Client.create and repository.create,
\* whose save runs at once
ResumeCreateClient ==
    /\ \E i \in 1..Len(calls) :
         /\ calls[i].useCase = "CreateClient"
         /\ calls[i].pc = "findByName"
         /\ IF calls[i].found
            THEN /\ calls' = [calls EXCEPT ![i].pc = "done", ![i].err = ConflictError]
                 /\ db' = db
            ELSE LET r == ClientRepositoryCreate(db, NameKey(calls[i].name), TRUE)
                 IN  /\ calls' = [calls EXCEPT ![i].pc = "create", ![i].err = r.err]
                     /\ db' = r.db
         /\ op' = [name |-> "resumeCreateClient", arg |-> i, err |-> calls'[i].err]
    /\ UNCHANGED <<client, menuItem, product, customer>>

StartCreateMenuItem ==
    /\ Len(calls) < MaxCalls
    /\ Len(db.clients) = 0
    /\ \A i \in 1..Len(calls) : calls[i].useCase = "CreateMenuItem"
    /\ \E name \in RequestNames :
         /\ calls' = Append(calls, CreateStart("CreateMenuItem", db.menuItems, name))
         /\ op' = [name |-> "startCreateMenuItem", arg |-> name,
                   err |-> CreateValidateName(name)]
    /\ UNCHANGED <<client, menuItem, product, customer, db>>

\* after the lookup: ConflictError, or the call of getNextDisplayOrder
ResumeCreateMenuItem ==
    /\ \E i \in 1..Len(calls) :
         /\ calls[i].useCase = "CreateMenuItem"
         /\ calls[i].pc = "findByName"
         /\ IF calls[i].found
            THEN calls' = [calls EXCEPT ![i].pc = "done", ![i].err = ConflictError]
            ELSE calls' = [calls EXCEPT
                             ![i].pc = "getNextDisplayOrder",
                             ![i].order = MenuItemRepositoryGetNextDisplayOrder(
                                              db.menuItems, "HAIR_SERVICES")]
         /\ op' = [name |-> "resumeCreateMenuItem", arg |-> i, err |-> calls'[i].err]
    /\ UNCHANGED <<client, menuItem, product, customer, db>>

\* with the display order: MenuItem.create and repository.create, whose
\* save runs at once
SaveCreatedMenuItem ==
    /\ \E i \in 1..Len(calls) :
         /\ calls[i].pc = "getNextDisplayOrder"
         /\ LET r == MenuItemRepositoryCreate(db, NameKey(calls[i].name),
                                              "HAIR_SERVICES", calls[i].order)
            IN  /\ calls' = [calls EXCEPT ![i].pc = "create", ![i].err = r.err]
                /\ db' = r.db
         /\ op' = [name |-> "saveCreatedMenuItem", arg |-> i, err |-> calls'[i].err]
    /\ UNCHANGED <<client, menuItem, product, customer>>

\* the execution resumes after repository.create: it returns the response or
\* throws what save threw
FinishCreate ==
    /\ \E i \in 1..Len(calls) :
         /\ calls[i].pc = "create"
         /\ calls' = [calls EXCEPT ![i].pc = "done"]
         /\ op' = [name |-> "finishCreate", arg |-> i, err |-> calls[i].err]
    /\ UNCHANGED <<client, menuItem, product, customer, db>>

(***************************************************************************)
(* The products table and CreateProduct.  A string is the sequence of its  *)
(* characters' codes, so that the order of two strings is the order of the *)
(* first code they differ in.  A SKU "HP-007" is its prefix and the digits *)
(* after the hyphen.  A product name is a sequence of words, a word's code *)
(* giving its alphabetical place (1 "argan", 2 "oil", 3 "shampoo"), and    *)
(* is written in lower or in upper case; it has no surrounding blanks, so  *)
(* trim() leaves it as it is.                                              *)
(***************************************************************************)
MaxCatalog == 3
MaxSequences == 1000
MAX_SEQUENCE == 999999
SkuPadLength == 3

UniqueConstraintError == "PrismaClientKnownRequestError"

\* sequence.toString()
RECURSIVE NumberToString(_)
NumberToString(n) ==
    IF n < 10 THEN <<n>> ELSE Append(NumberToString(n \div 10), n % 10)

\* s.padStart(len, '0')
RECURSIVE StringPadStart(_, _)
StringPadStart(s, len) ==
    IF Len(s) >= len THEN s ELSE StringPadStart(<<0>> \o s, len)

\* parseInt(s, 10) of a string of digits
RECURSIVE ParseInt(_)
ParseInt(s) ==
    IF Len(s) = 0 THEN 0
    ELSE ParseInt(SubSeq(s, 1, Len(s) - 1)) * 10 + s[Len(s)]

\* a < b in string order
RECURSIVE StringLess(_, _)
StringLess(a, b) ==
    IF Len(a) = 0 THEN Len(b) > 0
    ELSE IF Len(b) = 0 THEN FALSE
    ELSE IF a[1] # b[1] THEN a[1] < b[1]
    ELSE StringLess(Tail(a), Tail(b))

\* ProductCategory.getSkuPrefix()
GetSkuPrefix(category) ==
    IF category = "HAIR_PRODUCTS" THEN "HP" ELSE "NP"

\* SKU.generate(categoryPrefix, sequence)
SKUGenerate(categoryPrefix, sequence) ==
    IF sequence < 1 \/ sequence > MAX_SEQUENCE
    THEN [err |-> ValidationError,
          value |-> [prefix |-> categoryPrefix, digits |-> <<>>]]
    ELSE [err |-> NoError,
          value |-> [prefix |-> categoryPrefix,
                     digits |-> StringPadStart(NumberToString(sequence),
                                               SkuPadLength)]]

\* the row of rows[lo..hi] that orderBy: { sku: 'desc' } puts first; the
\* rows have one prefix
RECURSIVE LastSku(_, _, _)
LastSku(rows, lo, hi) ==
    IF lo = hi THEN rows[lo]
    ELSE LET mid == (lo + hi) \div 2
             a == LastSku(rows, lo, mid)
             b == LastSku(rows, mid + 1, hi)
         IN  IF StringLess(a.sku.digits, b.sku.digits) THEN b ELSE a

\* ProductRepository.getNextSequenceForCategory(categoryPrefix)
GetNextSequenceForCategory(rows, categoryPrefix) ==
    LET matching == SelectSeq(rows, LAMBDA r : r.sku.prefix = categoryPrefix)
    IN  IF Len(matching) = 0 THEN 1
        ELSE ParseInt(LastSku(matching, 1, Len(matching)).sku.digits) + 1

\* contains, mode: 'insensitive'
StringContains(hay, needle) ==
    \E i \in 0..(Len(hay) - Len(needle)) :
        SubSeq(hay, i + 1, i + Len(needle)) = needle

\* the row of rows[lo..hi] that orderBy: { name: 'asc' } puts first
RECURSIVE FirstByName(_, _, _)
FirstByName(rows, lo, hi) ==
    IF lo = hi THEN rows[lo]
    ELSE LET mid == (lo + hi) \div 2
             a == FirstByName(rows, lo, mid)
             b == FirstByName(rows, mid + 1, hi)
         IN  IF StringLess(b.name.words, a.name.words) THEN b ELSE a

\* ProductRepository.findByCategory(category, {search, page: 1, limit: 1}):
\* the items of searchProducts, skip 0 and take 1.  No name holds a hyphen
\* or a digit, so no SKU contains the search text.
ProductRepositoryFindByCategory(rows, category, search) ==
    LET matching ==
            SelectSeq(rows,
                LAMBDA r : /\ r.category = category
                           /\ \/ StringContains(r.name.words, search.words)
                              \/ StringContains(r.description, search.words))
    IN  IF Len(matching) = 0 THEN <<>>
        ELSE <<FirstByName(matching, 1, Len(matching))>>

\* CreateProduct.validateUniqueProduct(name, category)
ValidateUniqueProduct(rows, name, category) ==
    LET items == ProductRepositoryFindByCategory(rows, category, name)
    IN  IF \E i \in 1..Len(items) : items[i].name.words = name.words
        THEN ConflictError ELSE NoError

\* ProductRepository.create(product): prisma.product.create under the
\* @unique of sku
ProductTableCreate(d, row) ==
    IF \E i \in 1..Len(d.products) : d.products[i].sku = row.sku
    THEN [err |-> UniqueConstraintError, db |-> d]
    ELSE [err |-> NoError, db |-> [d EXCEPT !.products = Append(d.products, row)]]

\* CreateProduct.execute(request) with a valid price, type and entity data
CreateProductExecute(d, request) ==
    LET categoryPrefix == GetSkuPrefix(request.category)
        nextSequence   == GetNextSequenceForCategory(d.products, categoryPrefix)
        sku            == SKUGenerate(categoryPrefix, nextSequence)
        e              == ValidateUniqueProduct(d.products, request.name,
                                                request.category)
    IN  IF sku.err # NoError THEN [err |-> sku.err, db |-> d, sequence |-> nextSequence]
        ELSE IF e # NoError THEN [err |-> e, db |-> d, sequence |-> nextSequence]
        ELSE LET r == ProductTableCreate(d,
                          [sku |-> sku.value, name |-> request.name,
                           description |-> request.description,
                           category |-> request.category])
             IN  [err |-> r.err, db |-> r.db, sequence |-> nextSequence]

\* "shampoo", "argan shampoo" and "oil", in lower or upper case, described
\* as "oil" or as "shampoo"
CreateProductRequests ==
    [name : [words : {<<3>>, <<1, 3>>, <<2>>}, upper : BOOLEAN],
     description : {<<2>>, <<3>>},
     category : {"HAIR_PRODUCTS", "NAIL_PRODUCTS"}]

CreateProduct ==
    /\ Len(db.products) < MaxCatalog
    /\ \E request \in CreateProductRequests :
         LET r == CreateProductExecute(db, request)
         IN  /\ db' = r.db
             /\ op' = [name |-> "CreateProduct", arg |-> request, err |-> r.err,
                       result |-> r.sequence]
    /\ UNCHANGED <<client, menuItem, product, customer, calls>>

\* the next of a row of CreateProduct executions in one category, each with
\* a name of one word that no product has yet
CreateNextProduct ==
    /\ Len(db.products) <= MaxSequences
    /\ LET request == [name |-> [words |-> <<Len(db.products) + 10>>,
                                 upper |-> FALSE],
                       description |-> <<2>>,
                       category |-> "HAIR_PRODUCTS"]
           r == CreateProductExecute(db, request)
       IN  /\ db' = r.db
           /\ op' = [name |-> "CreateNextProduct", arg |-> request, err |-> r.err,
                     result |-> r.sequence]
    /\ UNCHANGED <<client, menuItem, product, customer, calls>>

(***************************************************************************)
(* Price value object.  A price is a whole number of cents (value * 100);  *)
(* the arithmetic is exact.                                                *)
(***************************************************************************)
MaxPriceCents == 20
MAX_PRICE_CENTS == 99999999

PriceCents == (0..MaxPriceCents) \cup {MAX_PRICE_CENTS, MAX_PRICE_CENTS + 1}
Percents == {-1, 0, 1, 10, 33, 50, 99, 100, 101}

\* Price.validate
PriceValidate(cents) ==
    IF cents <= 0 THEN ValidationError
    ELSE IF cents > MAX_PRICE_CENTS THEN ValidationError
    ELSE NoError

\* Price.create(value)
PriceCreate(cents) ==
    IF PriceValidate(cents) # NoError
    THEN [err |-> PriceValidate(cents), value |-> Undefined]
    ELSE [err |-> NoError, value |-> cents]

\* Math.round(n / d) for n >= 0, d > 0: halves round up
MathRound(n, d) == (2 * n + d) \div (2 * d)

\* Price.applyDiscount(discountPercent): Math.round(discountedPrice * 100) / 100
\* is the discounted cents rounded; the whole hundreds of cents are
\* discounted apart from the rest to keep the numbers small
PriceApplyDiscount(cents, discountPercent) ==
    IF discountPercent < 0 \/ discountPercent > 100
    THEN [err |-> ValidationError, value |-> Undefined]
    ELSE PriceCreate((cents \div 100) * (100 - discountPercent)
                     + MathRound((cents % 100) * (100 - discountPercent), 100))

CreatePrice ==
    /\ op.name = "init"
    /\ \E cents \in PriceCents :
         LET r == PriceCreate(cents)
         IN  op' = [name |-> "createPrice", arg |-> cents, err |-> r.err,
                    result |-> r.value]
    /\ UNCHANGED <<client, menuItem, product, customer, db, calls>>

\* Product.getDiscountedPrice(discountPercent) on the price just created
ApplyDiscount ==
    /\ op.name = "createPrice"
    /\ op.err = NoError
    /\ \E discountPercent \in Percents :
         LET r == PriceApplyDiscount(op.result, discountPercent)
         IN  op' = [name |-> "applyDiscount",
                    arg |-> [price |-> op.result, discountPercent |-> discountPercent],
                    err |-> r.err, result |-> r.value]
    /\ UNCHANGED <<client, menuItem, product, customer, db, calls>>

(***************************************************************************)
(* Lifecycle: deactivate and reactivate (MenuItem: activate) assign        *)
(* isActive and touch the entity.                                          *)
(***************************************************************************)
CustomerDeactivate(c) == [err |-> NoError, value |-> Touch([c EXCEPT !.isActive = FALSE])]

CustomerReactivate(c) == [err |-> NoError, value |-> Touch([c EXCEPT !.isActive = TRUE])]

ProductDeactivate(p) == [err |-> NoError, value |-> [p EXCEPT !.isActive = FALSE]]

ProductReactivate(p) == [err |-> NoError, value |-> [p EXCEPT !.isActive = TRUE]]

ClientDeactivate(c) == [err |-> NoError, value |-> [c EXCEPT !.isActive = FALSE]]

ClientReactivate(c) == [err |-> NoError, value |-> [c EXCEPT !.isActive = TRUE]]

MenuItemDeactivate(m) == [err |-> NoError, value |-> [m EXCEPT !.isActive = FALSE]]

MenuItemActivate(m) == [err |-> NoError, value |-> [m EXCEPT !.isActive = TRUE]]

DeactivateCustomer ==
    /\ customer.exists
    /\ LET r == CustomerDeactivate(customer)
       IN  /\ r.value.updatedAt <= MaxTouches
           /\ customer' = r.value
           /\ op' = [name |-> "deactivateCustomer", arg |-> 0, err |-> r.err,
                     before |-> customer.loyaltyPoints, prev |-> PrevOf(op)]
    /\ UNCHANGED <<client, menuItem, product, db, calls>>

ReactivateCustomer ==
    /\ customer.exists
    /\ LET r == CustomerReactivate(customer)
       IN  /\ r.value.updatedAt <= MaxTouches
           /\ customer' = r.value
           /\ op' = [name |-> "reactivateCustomer", arg |-> 0, err |-> r.err,
                     before |-> customer.loyaltyPoints, prev |-> PrevOf(op)]
    /\ UNCHANGED <<client, menuItem, product, db, calls>>

DeactivateProduct ==
    /\ product.exists
    /\ LET r == ProductDeactivate(product)
       IN  /\ product' = r.value
           /\ op' = [name |-> "deactivateProduct", arg |-> 0, err |-> r.err]
    /\ UNCHANGED <<client, menuItem, customer, db, calls>>

ReactivateProduct ==
    /\ product.exists
    /\ LET r == ProductReactivate(product)
       IN  /\ product' = r.value
           /\ op' = [name |-> "reactivateProduct", arg |-> 0, err |-> r.err]
    /\ UNCHANGED <<client, menuItem, customer, db, calls>>

DeactivateClient ==
    /\ client.exists
    /\ LET r == ClientDeactivate(client)
       IN  /\ client' = r.value
           /\ op' = [name |-> "deactivateClient", arg |-> 0, err |-> r.err]
    /\ UNCHANGED <<menuItem, product, customer, db, calls>>

ReactivateClient ==
    /\ client.exists
    /\ LET r == ClientReactivate(client)
       IN  /\ client' = r.value
           /\ op' = [name |-> "reactivateClient", arg |-> 0, err |-> r.err]
    /\ UNCHANGED <<menuItem, product, customer, db, calls>>

DeactivateMenuItem ==
    /\ menuItem.exists
    /\ LET r == MenuItemDeactivate(menuItem)
       IN  /\ menuItem' = r.value
           /\ op' = [name |-> "deactivateMenuItem", arg |-> 0, err |-> r.err]
    /\ UNCHANGED <<client, product, customer, db, calls>>

ActivateMenuItem ==
    /\ menuItem.exists
    /\ LET r == MenuItemActivate(menuItem)
       IN  /\ menuItem' = r.value
           /\ op' = [name |-> "activateMenuItem", arg |-> 0, err |-> r.err]
    /\ UNCHANGED <<client, product, customer, db, calls>>

(***************************************************************************)
(* Specifications: one per aggregate, the others not yet constructed       *)
(***************************************************************************)
\* no repository holds anything
EmptyDb ==
    [product |-> NoRow, products |-> <<>>, menuItems |-> <<>>, clients |-> <<>>,
     nextId |-> 1]

Init ==
    /\ client = NoClient
    /\ menuItem = NoMenuItem
    /\ product = NoProduct
    /\ customer = NoCustomer
    /\ db = EmptyDb
    /\ calls = <<>>
    /\ op = [name |-> "init", arg |-> 0, err |-> NoError]

\* a customer with a balance next to a tier threshold, as loaded or created
InitTier ==
    /\ client = NoClient
    /\ menuItem = NoMenuItem
    /\ product = NoProduct
    /\ customer \in {CustomerConstruct([name |-> 2,
                                        loyaltyPoints |-> LoyaltyPointsCreate(p).value,
                                        totalVisits |-> 0, updatedAt |-> 0]).value :
                        p \in TierPoints}
    /\ db = EmptyDb
    /\ calls = <<>>
    /\ op = [name |-> "init", arg |-> 0, err |-> NoError]

NextCredit == NewClientWithTerms \/ AddCharge \/ ProcessPayment \/ UpdateCreditTerms

NextContacts ==
    \/ NewClientWithContacts
    \/ UpdatePrimaryContact
    \/ AddSecondaryContact
    \/ RemoveSecondaryContact
    \/ UpdateSecondaryContact

NextMenuItem ==
    \/ NewMenuItem
    \/ UpdateCategory
    \/ AddIncludedService
    \/ RemoveIncludedService
    \/ UpdateAdvanceBookingRequirement
    \/ UpdateSeasonalValidity

NextProduct ==
    \/ NewProduct
    \/ UpdateDuration
    \/ RestockItem
    \/ ReduceStock
    \/ MarkAsOutOfStock
    \/ UpdateStockThreshold

NextRestock == SaveProduct \/ RestockProduct \/ GetProductById

NextCustomer ==
    \/ NewCustomer
    \/ CreateCustomer
    \/ AddLoyaltyPoints
    \/ RedeemLoyaltyPoints
    \/ RecordVisit

NextTier == GetLoyaltyTier \/ GetDiscountPercentage \/ FindByLoyaltyTier

NextCreateMenuItem == CreateMenuItem

NextRepository ==
    \/ SaveMenuItem
    \/ UpdateMenuItemById
    \/ DeleteMenuItemById
    \/ CreateClientEntry
    \/ UpdateClientById
    \/ DeleteClientById

NextPagination ==
    \/ SaveMenuItem
    \/ CreateClientEntry
    \/ MenuFindAll
    \/ MenuFindByFilters
    \/ ClientFindByFilters

NextLifecycle ==
    \/ NewCustomer
    \/ AddLoyaltyPoints
    \/ RedeemLoyaltyPoints
    \/ RecordVisit
    \/ DeactivateCustomer
    \/ ReactivateCustomer
    \/ NewProduct
    \/ UpdateDuration
    \/ RestockItem
    \/ ReduceStock
    \/ MarkAsOutOfStock
    \/ UpdateStockThreshold
    \/ DeactivateProduct
    \/ ReactivateProduct
    \/ NewClientWithTerms
    \/ AddCharge
    \/ ProcessPayment
    \/ DeactivateClient
    \/ ReactivateClient
    \/ NewMenuItem
    \/ UpdateAdvanceBookingRequirement
    \/ DeactivateMenuItem
    \/ ActivateMenuItem

NextTags == NewTaggedMenuItem \/ AddTag \/ RemoveTag

NextPrice == CreatePrice \/ ApplyDiscount

NextConcurrentCreate ==
    \/ StartCreateClient
    \/ ResumeCreateClient
    \/ StartCreateMenuItem
    \/ ResumeCreateMenuItem
    \/ SaveCreatedMenuItem
    \/ FinishCreate

NextCreateProduct == CreateProduct

NextSkuSequence == CreateNextProduct

NextMenuSort == SaveMenuItem \/ GetSortedMenuItems

NextListUseCases ==
    \/ SaveMenuItem
    \/ CreateClientEntry
    \/ GetCustomers
    \/ GetProducts
    \/ GetClients
    \/ GetMenuItems

Next ==
    \/ NextCredit
    \/ NextContacts
    \/ NextMenuItem
    \/ NextProduct
    \/ NextRestock
    \/ NextCustomer
    \/ NextTier
    \/ NextCreateMenuItem
    \/ NextRepository
    \/ NextPagination
    \/ NextListUseCases
    \/ NextLifecycle
    \/ NextTags
    \/ NextPrice
    \/ NextConcurrentCreate
    \/ NextMenuSort
    \/ NextCreateProduct
    \/ NextSkuSequence

SpecCredit == Init /\ [][NextCredit]_vars
SpecContacts == Init /\ [][NextContacts]_vars
SpecMenuItem == Init /\ [][NextMenuItem]_vars
SpecProduct == Init /\ [][NextProduct]_vars
SpecRestock == Init /\ [][NextRestock]_vars
SpecCustomer == Init /\ [][NextCustomer]_vars
SpecTier == InitTier /\ [][NextTier]_vars
SpecCreateMenuItem == Init /\ [][NextCreateMenuItem]_vars
SpecRepository == Init /\ [][NextRepository]_vars
SpecPagination == Init /\ [][NextPagination]_vars
SpecListUseCases == Init /\ [][NextListUseCases]_vars
SpecLifecycle == Init /\ [][NextLifecycle]_vars
SpecTags == Init /\ [][NextTags]_vars
SpecPrice == Init /\ [][NextPrice]_vars
SpecMenuSort == Init /\ [][NextMenuSort]_vars
SpecCreateProduct == Init /\ [][NextCreateProduct]_vars
SpecSkuSequence == Init /\ [][NextSkuSequence]_vars
SpecConcurrentCreate == Init /\ [][NextConcurrentCreate]_vars
Spec == Init /\ [][Next]_vars

(***************************************************************************)
(* Properties of the Client's credit terms (SpecCredit)                    *)
(***************************************************************************)
BypassTerms == {"PREPAID", "IMMEDIATE"}

\* C1: on active PREPAID or IMMEDIATE terms, addCharge(amount) succeeds for
\* every amount > 0, whatever the credit limit and the balance are.
\* (addCharge changes neither paymentTerms nor isActive, so both can be read
\* after the call.)
C1_BypassTermsChargeSucceeds ==
    (/\ client.exists
     /\ op.name = "addCharge"
     /\ op.arg > 0
     /\ client.creditTerms.isActive
     /\ client.creditTerms.paymentTerms \in BypassTerms)
    => op.err = NoError

\* C2: on active terms other than PREPAID/IMMEDIATE, addCharge(amount) with
\* amount > 0 succeeds exactly when currentBalance + amount <= creditLimit and
\* then adds amount to the balance; otherwise it fails and the credit terms
\* stay as they were.
C2_ChargeWithinLimit ==
    [][(/\ op'.name = "addCharge"
        /\ op'.arg > 0
        /\ client.exists
        /\ client.creditTerms.isActive
        /\ client.creditTerms.paymentTerms \notin BypassTerms)
       => LET ct == client.creditTerms
          IN  IF ct.currentBalance + op'.arg <= ct.creditLimit
              THEN /\ op'.err = NoError
                   /\ client'.creditTerms =
                          [ct EXCEPT !.currentBalance = ct.currentBalance + op'.arg]
              ELSE /\ op'.err # NoError
                   /\ client'.creditTerms = ct]_vars

\* a second charge that takes the balance exactly to the limit
C2_Witness ==
    /\ client.exists
    /\ op.name = "addCharge"
    /\ op.err = NoError
    /\ client.creditTerms.paymentTerms = "NET_30"
    /\ client.creditTerms.currentBalance = client.creditTerms.creditLimit
    /\ op.arg < client.creditTerms.currentBalance

C4_PaymentWithinBalance ==
    [][(op'.name = "processPayment" /\ client.exists)
       => LET ct == client.creditTerms
          IN  IF op'.arg > ct.currentBalance \/ op'.arg <= 0
              THEN /\ op'.err # NoError
                   /\ client'.creditTerms = ct
              ELSE /\ op'.err = NoError
                   /\ client'.creditTerms =
                          [ct EXCEPT !.currentBalance = ct.currentBalance - op'.arg]]_vars

\* a positive payment above a positive balance is rejected
C4_Witness ==
    /\ client.exists
    /\ op.name = "processPayment"
    /\ op.err = ValidationError
    /\ client.creditTerms.currentBalance > 0
    /\ op.arg > client.creditTerms.currentBalance

(***************************************************************************)
(* Properties of the Client's contacts (SpecContacts)                      *)
(***************************************************************************)
AllContacts(c) == <<c.primaryContact>> \o c.secondaryContacts

\* C5: in every reachable state of a Client the e-mails of the primary
\* contact and of all secondary contacts are pairwise distinct.
C5_ContactEmailsDistinct ==
    client.exists =>
        LET all == AllContacts(client)
        IN  \A i, j \in 1..Len(all) : i # j => all[i].email # all[j].email

\* C6: in every reachable state of a Client exactly one contact has
\* isPrimary = true, and it is the primary contact.
C6_ExactlyOnePrimary ==
    client.exists =>
        /\ client.primaryContact.isPrimary
        /\ \A i \in 1..Len(client.secondaryContacts) :
               ~client.secondaryContacts[i].isPrimary

(***************************************************************************)
(* Properties of the MenuItem (SpecMenuItem)                               *)
(***************************************************************************)
\* C7: in every reachable state of a MenuItem, isPackage = true implies at
\* least one included service.
C7_PackageHasServices ==
    (menuItem.exists /\ menuItem.isPackage) => Len(menuItem.includedServices) >= 1

\* a field-level check that the constructor runs before the category
\* consistency check rejects the props
FieldCheckFails(props) ==
    \/ MenuItemValidateName(props.name) # NoError
    \/ MenuItemValidateDescription(props.description) # NoError
    \/ MenuItemValidateDisplayOrder(props.displayOrder) # NoError
    \/ (props.advanceBookingRequired /\ Truthy(props.advanceBookingDays)
            /\ props.advanceBookingDays < 1)
    \/ (props.seasonalItem /\ props.validFrom # Undefined /\ props.validTo # Undefined
            /\ props.validFrom >= props.validTo)

\* C8: in every reachable state of a MenuItem isPackage equals
\* category.isPackage(); construction with a flag that differs from the
\* category's mapping fails, with BusinessRuleViolationError when the fields
\* themselves are valid; updateCategory(cat) sets isPackage to cat.isPackage()
\* and advanceBookingRequired to cat.requiresAdvanceBooking().
C8_PackageFlagMatchesCategory ==
    /\ menuItem.exists => menuItem.isPackage = MenuCategoryIsPackage(menuItem.category)
    /\ (op.name = "newMenuItem"
            /\ op.arg.isPackage # MenuCategoryIsPackage(op.arg.category))
       => /\ op.err # NoError
          /\ ~menuItem.exists
          /\ ~FieldCheckFails(op.arg) => op.err = BusinessRuleViolationError
    /\ op.name = "updateCategory"
       => /\ op.err = NoError
          /\ menuItem.category = op.arg
          /\ menuItem.isPackage = MenuCategoryIsPackage(op.arg)
          /\ menuItem.advanceBookingRequired = MenuCategoryRequiresAdvanceBooking(op.arg)

\* updateCategory has turned an item without included services into a package
C8_Witness ==
    /\ menuItem.exists
    /\ op.name = "updateCategory"
    /\ op.arg = "BRIDAL_PACKAGES"
    /\ menuItem.isPackage
    /\ menuItem.includedServices = <<>>

(***************************************************************************)
(* Properties of the Product (SpecProduct)                                 *)
(***************************************************************************)
DurationPresent(p) == p.durationMinutes # Undefined
StockPresent(p) == p.stockLevel # Undefined /\ p.lowStockThreshold # Undefined
StockAbsent(p) == p.stockLevel = Undefined /\ p.lowStockThreshold = Undefined

\* the fields of p agree with its type in both directions
FieldsMatchType(p) ==
    /\ DurationPresent(p) <=> p.type \in {"SERVICE", "PACKAGE"}
    /\ IF p.type = "PHYSICAL_PRODUCT" THEN StockPresent(p) ELSE StockAbsent(p)

\* every field of the props that is present passes its own field-level check
FieldsValid(props) ==
    /\ ProductValidateName(props.name) = NoError
    /\ ProductValidateDescription(props.description) = NoError
    /\ DurationPresent(props) => ProductValidateDuration(props.durationMinutes) = NoError
    /\ props.stockLevel # Undefined => props.stockLevel >= 0
    /\ props.lowStockThreshold # Undefined => props.lowStockThreshold >= 0

\* C9: in every reachable state of a Product, durationMinutes is present iff
\* the type is SERVICE or PACKAGE, and stockLevel and lowStockThreshold are
\* present iff the type is PHYSICAL_PRODUCT; constructing a product (from
\* fields that are valid one by one) that violates either direction fails
\* with BusinessRuleViolationError.
C9_FieldsMatchType ==
    /\ product.exists => FieldsMatchType(product)
    /\ (op.name = "newProduct" /\ FieldsValid(op.arg) /\ ~FieldsMatchType(op.arg))
       => op.err = BusinessRuleViolationError

ProductMutators ==
    {"updateDuration", "restockItem", "reduceStock", "markAsOutOfStock",
     "updateStockThreshold"}

\* C10: whenever updateDuration, restockItem, reduceStock, markAsOutOfStock
\* or updateStockThreshold rejects a call, the error is a
\* BusinessRuleViolationError and not a ValidationError.
C10_RejectsWithBusinessRuleError ==
    (op.name \in ProductMutators /\ op.err # NoError)
    => op.err = BusinessRuleViolationError

\* the product's type supports the operation
TypeSupports(type, name) ==
    IF name = "updateDuration" THEN type \in {"SERVICE", "PACKAGE"}
    ELSE type = "PHYSICAL_PRODUCT"

\* C10, amended: a rejection because the product's type does not support the
\* operation, or because reduceStock is asked for more than the current
\* stock, is a BusinessRuleViolationError; a rejection of the argument itself
\* on a supporting type (negative quantity or threshold, duration outside
\* 5..480 or not a multiple of 5) is a ValidationError.
\* (A rejected call changes neither the type nor the stock.)
C10_RejectionKinds ==
    (product.exists /\ op.name \in ProductMutators /\ op.err # NoError)
    => IF ~TypeSupports(product.type, op.name)
          \/ (op.name = "reduceStock" /\ op.arg >= 0
                  /\ op.arg > OrZero(product.stockLevel))
       THEN op.err = BusinessRuleViolationError
       ELSE op.err = ValidationError

\* a service rejects a restock with a negative quantity for its type
C10_Witness ==
    /\ product.exists
    /\ product.type = "SERVICE"
    /\ op.name = "restockItem"
    /\ op.arg < 0
    /\ op.err = BusinessRuleViolationError


(***************************************************************************)
(* Properties of restocking through the repository (SpecRestock)           *)
(***************************************************************************)
\* the stock a row stands for, an absent stock level counted as 0
RowStock(row) == IF row.stockLevel = Null THEN 0 ELSE row.stockLevel

\* C11: for a stored active PHYSICAL_PRODUCT with stock s (absent counted as
\* 0) and a quantity q >= 0, RestockProduct.execute succeeds, returns
\* stockLevel = s + q, and a following findById reports s + q as well.
C11_RestockAddsToStock ==
    [][(/\ op'.name = "RestockProduct"
        /\ db.product.exists
        /\ db.product.type = "PHYSICAL_PRODUCT"
        /\ db.product.isActive
        /\ op'.arg >= 0)
       => (/\ op'.err = NoError
           /\ op'.result = RowStock(db.product) + op'.arg
           /\ ProductRepositoryFindById(db'.product).value.stockLevel
                  = RowStock(db.product) + op'.arg)]_vars

(***************************************************************************)
(* Properties of the Customer's loyalty points (SpecCustomer)              *)
(***************************************************************************)
PointCalls == {"addLoyaltyPoints", "redeemLoyaltyPoints"}

\* the balance the call recorded in o would produce if it were carried out
BalanceAsked(o) ==
    IF o.name = "addLoyaltyPoints" THEN o.before + o.arg ELSE o.before - o.arg

\* C12: after every addLoyaltyPoints or redeemLoyaltyPoints call, successful
\* or failing, the balance is in [0, 999999]; a call that would take the
\* balance out of that range fails, and a failing call keeps the balance.
C12_BalanceInRange ==
    (customer.exists /\ op.name \in PointCalls)
    => (/\ customer.loyaltyPoints \in MIN_POINTS..MAX_POINTS
        /\ (BalanceAsked(op) \notin MIN_POINTS..MAX_POINTS => op.err # NoError)
        /\ (op.err # NoError => customer.loyaltyPoints = op.before))

\* a call that would pass the cap was rejected, and so was one that would go
\* below zero
C12_Witness ==
    /\ customer.exists
    /\ op.name = "redeemLoyaltyPoints"
    /\ op.before - op.arg < MIN_POINTS
    /\ op.err # NoError
    /\ op.prev.name = "addLoyaltyPoints"
    /\ op.prev.before + op.prev.arg > MAX_POINTS
    /\ op.prev.before > 0
    /\ op.prev.err # NoError

\* C13: redeemLoyaltyPoints(n) with n above the balance fails with a
\* BusinessRuleViolationError and leaves balance, totalVisits and updatedAt as
\* they were; with 0 <= n <= balance it succeeds and lowers the balance by n.
C13_RedeemContract ==
    [][op'.name = "redeemLoyaltyPoints"
       => (/\ op'.arg > customer.loyaltyPoints
              => (/\ op'.err = BusinessRuleViolationError
                  /\ customer'.loyaltyPoints = customer.loyaltyPoints
                  /\ customer'.totalVisits = customer.totalVisits
                  /\ customer'.updatedAt = customer.updatedAt)
           /\ (0 <= op'.arg /\ op'.arg <= customer.loyaltyPoints)
              => (/\ op'.err = NoError
                  /\ customer'.loyaltyPoints = customer.loyaltyPoints - op'.arg))]_vars

\* the whole balance was redeemed from a customer that has visits
C13_Witness ==
    /\ customer.exists
    /\ op.name = "redeemLoyaltyPoints"
    /\ op.err = NoError
    /\ op.arg = op.before
    /\ op.arg > 0
    /\ customer.totalVisits > 0

C16_FactoryStartsAtZero ==
    (op.name \in {"newCustomer", "CreateCustomer"} /\ op.err = NoError)
    => (/\ customer.exists
        /\ customer.loyaltyPoints = 0
        /\ customer.totalVisits = 0)

\* C16 amended: a customer created by CreateCustomer.execute has zero loyalty
\* points and zero total visits, whatever the request carries; Customer.create
\* itself keeps the points and visits it is given and starts at zero only
\* where they are missing.
C16_CreatedWithZeroPointsAndVisits ==
    /\ (op.name = "CreateCustomer" /\ op.err = NoError)
       => (/\ customer.exists
           /\ customer.loyaltyPoints = 0
           /\ customer.totalVisits = 0)
    /\ (op.name = "newCustomer" /\ op.err = NoError)
       => (/\ customer.exists
           /\ customer.loyaltyPoints = OrZero(op.given.loyaltyPoints)
           /\ customer.totalVisits = OrZero(op.given.totalVisits))

\* a request that carries points and visits created a customer
C16_Witness ==
    /\ op.name = "CreateCustomer"
    /\ op.err = NoError
    /\ customer.exists
    /\ op.given.loyaltyPoints = 499
    /\ op.given.totalVisits = 2

(***************************************************************************)
(* Properties of the loyalty tier (SpecTier)                               *)
(***************************************************************************)
TierRank(tier) ==
    CASE tier = "Bronze" -> 0
      [] tier = "Silver" -> 1
      [] tier = "Gold" -> 2
      [] tier = "Platinum" -> 3

\* C15: the tier of p points is Bronze below 500, Silver from 500, Gold from
\* 1000 and Platinum from 2000; it never decreases as p grows; the discount
\* is 0, 5, 10 and 15 percent for the four tiers; and findByLoyaltyTier(t)
\* selects exactly the balances whose tier is t.
C15_TierTable ==
    LET p == customer.loyaltyPoints
    IN  /\ op.name = "getLoyaltyTier"
           => (/\ (p < 500) = (op.result = "Bronze")
               /\ (500 <= p /\ p < 1000) = (op.result = "Silver")
               /\ (1000 <= p /\ p < 2000) = (op.result = "Gold")
               /\ (p >= 2000) = (op.result = "Platinum")
               /\ \A q \in TierPoints :
                    q <= p => TierRank(LoyaltyPointsGetTierLevel(q)) <= TierRank(op.result))
        /\ op.name = "getDiscountPercentage"
           => op.result = CASE p < 500 -> 0
                            [] 500 <= p /\ p < 1000 -> 5
                            [] 1000 <= p /\ p < 2000 -> 10
                            [] p >= 2000 -> 15
        /\ op.name = "findByLoyaltyTier"
           => op.result = (LoyaltyPointsGetTierLevel(p) = op.arg)

\* the tier was read for a balance that sits exactly on a threshold
C15_Witness ==
    /\ op.name = "getLoyaltyTier"
    /\ customer.loyaltyPoints = 1000
    /\ op.result = "Gold"

(***************************************************************************)
(* Properties of the in-memory repositories (SpecRepository,               *)
(* SpecCreateMenuItem)                                                     *)
(***************************************************************************)
\* the entries of a store as a set
Entries(store) == {store[i] : i \in 1..Len(store)}

\* what C19 says of one update or delete call on one repository
NotFoundContract(before, after, id, err, isDelete) ==
    /\ ~RepositoryExists(before, id)
       => (err = NotFoundError /\ after = before)
    /\ (isDelete /\ RepositoryExists(before, id))
       => (/\ err = NoError
           /\ Len(after) = Len(before) - 1
           /\ Entries(after) = {e \in Entries(before) : e.id # id}
           /\ ~RepositoryExists(after, id)
           /\ ~RepositoryFindById(after, id).found)

\* C19: on both in-memory repositories update(id) and delete(id) of an id
\* that is not stored fail with NotFoundError and change nothing; delete of a
\* stored id removes exactly that entry, and then exists(id) is false and
\* findById(id) is null.
C19_NotFoundAndDelete ==
    [][/\ op'.name \in {"updateMenuItem", "deleteMenuItem"}
          => (/\ NotFoundContract(db.menuItems, db'.menuItems, op'.arg, op'.err,
                                  op'.name = "deleteMenuItem")
              /\ db'.clients = db.clients)
       /\ op'.name \in {"updateClient", "deleteClient"}
          => (/\ NotFoundContract(db.clients, db'.clients, op'.arg, op'.err,
                                  op'.name = "deleteClient")
              /\ db'.menuItems = db.menuItems)]_vars

\* an entry was deleted from the middle of a menu item store of three, and
\* deleting it again was refused
C19_Witness ==
    /\ op.name = "deleteMenuItem"
    /\ op.err = NotFoundError
    /\ Len(db.menuItems) = 2
    /\ db.menuItems[1].id < op.arg
    /\ op.arg < db.menuItems[2].id

\* C20: no two menu items stored by CreateMenuItem executions have the same
\* displayOrder.
C20_DisplayOrdersDistinct ==
    \A i, j \in 1..Len(db.menuItems) :
        i # j => db.menuItems[i].item.displayOrder # db.menuItems[j].item.displayOrder

(***************************************************************************)
(* Properties of listing (SpecPagination)                                  *)
(***************************************************************************)
\* the listing recorded in o, asked again for page p
ListingPage(o, p) ==
    LET options == [o.arg EXCEPT !.page = p]
    IN  CASE o.name = "menuFindAll" ->
                 MenuItemRepositoryFindAll(db.menuItems, options)
          [] o.name = "menuFindByFilters" ->
                 MenuItemRepositoryFindByFilters(db.menuItems, o.filter, options)
          [] o.name = "clientFindByFilters" ->
                 ClientRepositoryFindByFilters(db.clients, o.filter, options)

RECURSIVE ListingPages(_, _)
\* the items of pages 1..p of the listing recorded in o, one after the other
ListingPages(o, p) ==
    IF p = 0 THEN <<>> ELSE ListingPages(o, p - 1) \o ListingPage(o, p).items

\* the ids of the stored entries the listing recorded in o matches
MatchingIds(o) ==
    CASE o.name = "menuFindAll" -> {e.id : e \in Entries(db.menuItems)}
      [] o.name = "menuFindByFilters" ->
             {e.id : e \in {x \in Entries(db.menuItems) :
                               o.filter = NoCategory \/ x.item.category = o.filter}}
      [] o.name = "clientFindByFilters" ->
             {e.id : e \in {x \in Entries(db.clients) :
                               ~o.filter.given \/ x.isActive = o.filter.isActive}}

\* the sort key of the stored entry with the id
SortKeyOfId(o, id) ==
    IF o.name = "clientFindByFilters"
    THEN (CHOOSE e \in Entries(db.clients) : e.id = id).title
    ELSE (CHOOSE e \in Entries(db.menuItems) : e.id = id).item.displayOrder

\* ids is ordered by sort key in the direction asked for
InSortOrder(o, ids) ==
    \A i, j \in 1..Len(ids) :
        i < j => IF o.arg.orderDirection = "desc"
                 THEN SortKeyOfId(o, ids[i]) >= SortKeyOfId(o, ids[j])
                 ELSE SortKeyOfId(o, ids[i]) <= SortKeyOfId(o, ids[j])

\* C17: a listing of N matching items with page size L >= 1 reports N and
\* ceil(N/L) pages; pages 1..ceil(N/L) one after the other hold every matching
\* item exactly once, in sort order; a page beyond the last is empty and
\* reports the same total.
C17_PaginationLaw ==
    op.name \in ListingCalls
    => LET N == Cardinality(MatchingIds(op))
           L == op.arg.limit
           P == op.result.pages
           all == ListingPages(op, P)
       IN  /\ op.err = NoError
           /\ op.result.total = N
           /\ P * L >= N
           /\ P = 0 \/ (P - 1) * L < N
           /\ Len(all) = N
           /\ {all[i] : i \in 1..Len(all)} = MatchingIds(op)
           /\ InSortOrder(op, all)
           /\ \A p \in 1..P : ListingPage(op, p).total = N
           /\ op.arg.page > P => (op.result.items = <<>> /\ op.result.total = N)

\* three menu items, two of them with the same displayOrder, were listed in
\* pages of two, and the page asked for was beyond the last
C17_Witness ==
    /\ op.name = "menuFindAll"
    /\ Len(db.menuItems) = 3
    /\ db.menuItems[1].item.displayOrder = db.menuItems[3].item.displayOrder
    /\ db.menuItems[2].item.displayOrder < db.menuItems[1].item.displayOrder
    /\ op.arg.limit = 2
    /\ op.result.pages = 2
    /\ op.arg.page = 3


(***************************************************************************)
(* Properties of the list use cases (SpecListUseCases)                     *)
(***************************************************************************)
\* pages is the integer ceiling of total / limit
IsCeilOf(pages, total, limit) ==
    IF limit > 0
    THEN pages * limit >= total /\ (pages - 1) * limit < total
    ELSE limit < 0 /\ pages * limit <= total /\ (pages - 1) * limit > total

\* C18: in GetCustomers, GetProducts, GetClients and GetMenuItems the page
\* size passed to the repository and the page size reported in the response
\* are at most 100 for every page size the caller supplies (a supplied size
\* of 1..100 is passed as it is), and the reported total page count is
\* ceil(total / limit) for the reported total and limit.
C18_PageSizeCapped ==
    op.name \in ListUseCases
    => /\ op.err = NoError
       /\ op.passed.limit <= 100
       /\ op.result.limit <= 100
       /\ op.result.limit = op.passed.limit
       /\ op.arg.limit \in 1..100 => op.passed.limit = op.arg.limit
       /\ op.arg.limit # Undefined /\ op.arg.limit > 100 => op.passed.limit = 100
       /\ IsCeilOf(op.result.totalPages, op.result.total, op.result.limit)

\* a caller asks for 1000 rows per page of a table of more than 100 rows
C18_Witness ==
    /\ op.name \in {"getCustomers", "getProducts"}
    /\ op.arg.limit = 1000
    /\ op.passed.limit = 100
    /\ op.result.limit = 100
    /\ op.result.total > 100
    /\ op.result.totalPages > 1

(***************************************************************************)
(* Properties of the MenuItem's mutators (SpecMenuItem)                    *)
(***************************************************************************)
\* C21: a call of a mutating method that throws leaves every field of the
\* entity as it was before the call (here for the MenuItem: updateCategory,
\* addIncludedService, removeIncludedService,
\* updateAdvanceBookingRequirement, updateSeasonalValidity).
C21_ThrowingCallChangesNothing ==
    [][(menuItem.exists /\ op'.err # NoError) => menuItem' = menuItem]_vars

\* C24: in every state of a MenuItem, advanceBookingRequired = true implies
\* that advanceBookingDays is set and at least 1.
C24_RequiredHasDays ==
    (menuItem.exists /\ menuItem.advanceBookingRequired)
    => (menuItem.advanceBookingDays # Undefined /\ menuItem.advanceBookingDays >= 1)

(***************************************************************************)
(* Properties of the lifecycle (SpecLifecycle)                             *)
(***************************************************************************)
DeactivateCalls ==
    {"deactivateCustomer", "deactivateProduct", "deactivateClient", "deactivateMenuItem"}
ReactivateCalls ==
    {"reactivateCustomer", "reactivateProduct", "reactivateClient", "activateMenuItem"}

\* the entity in the other lifecycle state
Flip(e) == [e EXCEPT !.isActive = ~e.isActive]

\* the call with outcome r on e and outcome f on Flip(e) neither reads nor
\* writes isActive
Unaffected(e, r, f) ==
    /\ r.value.isActive = e.isActive
    /\ f.err = r.err
    /\ f.value = Flip(r.value)

CustomerMutatorsIgnoreIsActive ==
    customer.exists
    => /\ \A points \in PointArgs :
            /\ Unaffected(customer, CustomerAddLoyaltyPoints(customer, points),
                          CustomerAddLoyaltyPoints(Flip(customer), points))
            /\ Unaffected(customer, CustomerRedeemLoyaltyPoints(customer, points),
                          CustomerRedeemLoyaltyPoints(Flip(customer), points))
       /\ Unaffected(customer, CustomerRecordVisit(customer),
                     CustomerRecordVisit(Flip(customer)))

ProductMutatorsIgnoreIsActive ==
    product.exists
    => /\ \A d \in Durations :
            Unaffected(product, ProductUpdateDuration(product, d),
                       ProductUpdateDuration(Flip(product), d))
       /\ \A q \in Quantities :
            /\ Unaffected(product, ProductRestockItem(product, q),
                          ProductRestockItem(Flip(product), q))
            /\ Unaffected(product, ProductReduceStock(product, q),
                          ProductReduceStock(Flip(product), q))
            /\ Unaffected(product, ProductUpdateStockThreshold(product, q),
                          ProductUpdateStockThreshold(Flip(product), q))
       /\ Unaffected(product, ProductMarkAsOutOfStock(product),
                     ProductMarkAsOutOfStock(Flip(product)))

ClientMutatorsIgnoreIsActive ==
    client.exists
    => /\ \A amount \in Amounts :
            /\ Unaffected(client, ClientAddCharge(client, amount),
                          ClientAddCharge(Flip(client), amount))
            /\ Unaffected(client, ClientProcessPayment(client, amount),
                          ClientProcessPayment(Flip(client), amount))
       /\ \A t \in CreditTermsInstances :
            Unaffected(client, ClientUpdateCreditTerms(client, t),
                       ClientUpdateCreditTerms(Flip(client), t))
       /\ \A c \in ContactPerson :
            /\ Unaffected(client, ClientUpdatePrimaryContact(client, c),
                          ClientUpdatePrimaryContact(Flip(client), c))
            /\ Unaffected(client, ClientAddSecondaryContact(client, c),
                          ClientAddSecondaryContact(Flip(client), c))
            /\ \A e \in Emails :
                 Unaffected(client, ClientUpdateSecondaryContact(client, e, c),
                            ClientUpdateSecondaryContact(Flip(client), e, c))
       /\ \A e \in Emails :
            Unaffected(client, ClientRemoveSecondaryContact(client, e),
                       ClientRemoveSecondaryContact(Flip(client), e))

MenuItemMutatorsIgnoreIsActive ==
    menuItem.exists
    => /\ \A c \in MenuCategories :
            Unaffected(menuItem, MenuItemUpdateCategory(menuItem, c),
                       MenuItemUpdateCategory(Flip(menuItem), c))
       /\ \A sv \in Services :
            /\ Unaffected(menuItem, MenuItemAddIncludedService(menuItem, sv),
                          MenuItemAddIncludedService(Flip(menuItem), sv))
            /\ Unaffected(menuItem, MenuItemRemoveIncludedService(menuItem, sv),
                          MenuItemRemoveIncludedService(Flip(menuItem), sv))
       /\ \A required \in BOOLEAN, days \in {Undefined, -1, 1, 366} :
            Unaffected(menuItem,
                       MenuItemUpdateAdvanceBookingRequirement(menuItem, required, days),
                       MenuItemUpdateAdvanceBookingRequirement(Flip(menuItem), required,
                                                               days))
       /\ \A f \in Dates, t \in Dates :
            Unaffected(menuItem, MenuItemUpdateSeasonalValidity(menuItem, f, t),
                       MenuItemUpdateSeasonalValidity(Flip(menuItem), f, t))

Active == <<customer.isActive, product.isActive, client.isActive, menuItem.isActive>>

\* what a step does to isActive
LifecycleStep ==
    /\ op'.name \in DeactivateCalls \cup ReactivateCalls => op'.err = NoError
    /\ op'.name = "deactivateCustomer" => Active' = [Active EXCEPT ![1] = FALSE]
    /\ op'.name = "reactivateCustomer" => Active' = [Active EXCEPT ![1] = TRUE]
    /\ op'.name = "deactivateProduct" => Active' = [Active EXCEPT ![2] = FALSE]
    /\ op'.name = "reactivateProduct" => Active' = [Active EXCEPT ![2] = TRUE]
    /\ op'.name = "deactivateClient" => Active' = [Active EXCEPT ![3] = FALSE]
    /\ op'.name = "reactivateClient" => Active' = [Active EXCEPT ![3] = TRUE]
    /\ op'.name = "deactivateMenuItem" => Active' = [Active EXCEPT ![4] = FALSE]
    /\ op'.name = "activateMenuItem" => Active' = [Active EXCEPT ![4] = TRUE]
    /\ (op.name # "init" /\ op'.name \notin DeactivateCalls \cup ReactivateCalls)
       => Active' = Active

\* C22: isActive of a Customer, Product, Client and MenuItem is a boolean
\* that changes only through deactivate and reactivate (activate); both
\* succeed in either state and give inactive, respectively active, whatever
\* the state was; every other mutating method gives the same outcome on the
\* active and on the inactive entity and leaves isActive as it was.
C22_Lifecycle ==
    /\ [](/\ Active \in [1..4 -> BOOLEAN]
          /\ CustomerMutatorsIgnoreIsActive
          /\ ProductMutatorsIgnoreIsActive
          /\ ClientMutatorsIgnoreIsActive
          /\ MenuItemMutatorsIgnoreIsActive)
    /\ [][LifecycleStep]_vars

\* a charge taken by a deactivated client
C22_Witness ==
    /\ client.exists
    /\ ~client.isActive
    /\ op.name = "addCharge"
    /\ op.err = NoError

(***************************************************************************)
(* Properties of the MenuItem's tags (SpecTags)                            *)
(***************************************************************************)
\* C23: in every state of a MenuItem reached by construction with any tag
\* list followed by addTag and removeTag calls, the tag list has no
\* duplicates and every tag is trimmed and lower-case.
C23_TagsNormalized ==
    menuItem.exists
    => /\ \A i, j \in 1..Len(menuItem.tags) : menuItem.tags[i] = menuItem.tags[j] => i = j
       /\ \A i \in 1..Len(menuItem.tags) :
            ~menuItem.tags[i].upper /\ ~menuItem.tags[i].padded

(***************************************************************************)
(* Properties of the Price (SpecPrice)                                     *)
(***************************************************************************)
\* C25: for a valid Price and a discount percent in [0, 100], applyDiscount
\* returns a valid Price, the discounted amount rounded to the cent; it
\* fails only when the percent is outside [0, 100].
C25_DiscountOnlyFailsOutOfRange ==
    op.name = "applyDiscount"
    => LET pct   == op.arg.discountPercent
           whole == (op.arg.price \div 100) * (100 - pct)
           exact == (op.arg.price % 100) * (100 - pct)
       IN  /\ op.err # NoError => (pct < 0 \/ pct > 100)
           /\ op.err = NoError
              => /\ PriceValidate(op.result) = NoError
                 /\ 2 * (100 * (op.result - whole) - exact) <= 100
                 /\ 2 * (exact - 100 * (op.result - whole)) < 100

(***************************************************************************)
(* Properties of concurrent creates (SpecConcurrentCreate)                 *)
(***************************************************************************)
TitlesDistinct(store) ==
    \A i, j \in 1..Len(store) : store[i].title = store[j].title => i = j

\* C26: under every interleaving of CreateClient (CreateMenuItem)
\* executions at their awaits the store never holds two clients (menu
\* items) whose names are equal ignoring case, and of two finished requests
\* with such names at most one has succeeded, the other having failed with
\* ConflictError.
C26_NoDuplicateNames ==
    /\ TitlesDistinct(db.clients)
    /\ TitlesDistinct(db.menuItems)
    /\ \A i, j \in 1..Len(calls) :
         (/\ i # j
          /\ calls[i].pc = "done" /\ calls[j].pc = "done"
          /\ CreateValidateName(calls[i].name) = NoError
          /\ NameKey(calls[i].name) = NameKey(calls[j].name))
         => /\ {calls[i].err, calls[j].err} \subseteq {NoError, ConflictError}
            /\ calls[i].err = ConflictError \/ calls[j].err = ConflictError

\* two executions with names that differ in case both passed the lookup
\* before either saved, and save refused the second
C26_Witness ==
    /\ Len(calls) = 2
    /\ calls[1].pc = "done" /\ calls[2].pc = "done"
    /\ calls[1].name # calls[2].name
    /\ NameKey(calls[1].name) = NameKey(calls[2].name)
    /\ ~calls[1].found /\ ~calls[2].found
    /\ {calls[1].err, calls[2].err} = {NoError, ConflictError}
    /\ Len(db.clients) + Len(db.menuItems) = 1

(***************************************************************************)
(* Properties of CreateProduct (SpecSkuSequence, SpecCreateProduct)        *)
(***************************************************************************)
StoredSequences(rows, categoryPrefix) ==
    {ParseInt(rows[i].sku.digits) :
        i \in {j \in 1..Len(rows) : rows[j].sku.prefix = categoryPrefix}}

\* C27: after any row of CreateProduct executions in one category the
\* sequence number that getNextSequenceForCategory returns is greater than
\* every sequence number stored for the prefix, so the SKU generated from it
\* is the SKU of no stored product.
C27_NextSequenceIsFresh ==
    LET next == GetNextSequenceForCategory(db.products, "HP")
        sku  == SKUGenerate("HP", next).value
    IN  /\ \A n \in StoredSequences(db.products, "HP") : n < next
        /\ \A i \in 1..Len(db.products) : sku # db.products[i].sku

\* C29: CreateProduct.execute fails with ConflictError and writes nothing
\* whenever a stored product of the requested category has the requested
\* name, compared without case.
C29_SameNameConflicts ==
    [][(/\ op'.name = "CreateProduct"
        /\ \E i \in 1..Len(db.products) :
             /\ db.products[i].category = op'.arg.category
             /\ db.products[i].name.words = op'.arg.name.words)
       => (op'.err = ConflictError /\ db' = db)]_vars

(***************************************************************************)
(* Stock of a physical product (SpecProduct)                               *)
(***************************************************************************)
StockNeverNegative ==
    (product.exists /\ product.type = "PHYSICAL_PRODUCT")
    => /\ product.stockLevel = Undefined \/ product.stockLevel >= 0
       /\ OrZero(product.stockLevel) >= 0
       /\ ~(ProductIsOutOfStock(product) /\ ProductIsLowStock(product))

OverdrawRejected ==
    (/\ product.exists /\ product.type = "PHYSICAL_PRODUCT"
     /\ op'.name = "reduceStock"
     /\ op'.arg > OrZero(product.stockLevel))
    => /\ op'.err = BusinessRuleViolationError
       /\ product'.stockLevel = product.stockLevel

\* C30: in every state of a PHYSICAL_PRODUCT reached by restockItem,
\* reduceStock, markAsOutOfStock and updateStockThreshold calls the stock is
\* not negative and isOutOfStock() and isLowStock() are not both true, and
\* reduceStock(q) with q above the stock fails with
\* BusinessRuleViolationError and leaves the stock as it was.
C30_StockNeverNegative == []StockNeverNegative /\ [][OverdrawRejected]_vars

\* a reduceStock above the stock of a stocked physical product was refused
C30_Witness ==
    /\ product.exists /\ product.type = "PHYSICAL_PRODUCT"
    /\ op.name = "reduceStock"
    /\ op.err = BusinessRuleViolationError
    /\ product.stockLevel # Undefined /\ product.stockLevel > 0
    /\ op.arg > product.stockLevel

(***************************************************************************)
(* Sorting of GetMenuItems (SpecMenuSort)                                  *)
(***************************************************************************)
\* the value of the field sortBy of the stored menu item id
SortValue(id, sortBy) ==
    LET e == CHOOSE x \in {db.menuItems[i] : i \in 1..Len(db.menuItems)} : x.id = id
    IN  IF sortBy = "name" THEN e.title
        ELSE IF sortBy = "createdAt" THEN e.id
        ELSE e.item.displayOrder

\* C28: the items GetMenuItems returns are ordered by the field and in the
\* direction the request gives, and by displayOrder ascending when it gives
\* none.
C28_CallerSortHonoured ==
    op.name = "getSortedMenuItems"
    => \A i, j \in 1..Len(op.result) :
         i < j =>
           LET a == SortValue(op.result[i], op.arg.sortBy)
               b == SortValue(op.result[j], op.arg.sortBy)
           IN  IF op.arg.sortOrder = "desc" THEN a >= b ELSE a <= b

====
